---- MODULE Spec2Model ----
(***************************************************************************)
(* Crawl orchestration of InfoMining (app/crawl_extract.py): candidate     *)
(* loading and de-duplication, ledger replay, bounded-concurrency fetch    *)
(* with retry, batched append to the ledger, and abrupt termination.       *)
(* The URL canonicaliser and de-duplicator of app/crawl_and_rank.py and   *)
(* the scoring, re-score pass, ranking and truncation of                   *)
(* app/curate_results.py are modelled as operators; SpecCanon, SpecLoad    *)
(* and SpecCurate apply them to bounded sets of inputs. SpecLive is the    *)
(* crawl under the fairness of the event loop, SpecTimed the crawl with a  *)
(* clock, and SpecScore the scoring loops of both programs, scorer by      *)
(* scorer.                                                                 *)
(***************************************************************************)
EXTENDS Integers, Sequences, FiniteSets, TLC

\* ------------------------------------------------------------------ bounds
\* concurrency argument of run_crawl (main passes 8); scaled down so that the
\* semaphore is contended by the few URLs of the model
concurrency == 2
\* batch_size of run_crawl (20 in the source); scaled down so that the flush
\* inside the loop happens with the few URLs of the model
batch_size == 2
\* number of run_crawl processes started one after the other on the same files
MaxRuns == 2
\* number of crawler.arun calls that fail (raise, or return no text) in one
\* behaviour: one URL can use up its retries + 1 attempts
MaxFaults == 3

\* default of fetch_one's parameter retries
retries == 2

\* ------------------------------------------------------------ strings, URLs
\* Optional strings: Python None or a str (a sequence of characters)
None == [none |-> TRUE]
Some(s) == [none |-> FALSE, s |-> s]

\* str.lower on the host names of the model
lower(s) ==
  CASE s = "A" -> "a"
    [] s = "B" -> "b"
    [] s = "WWW." -> "www."
    [] OTHER -> s

RECURSIVE rstrip(_, _)
\* str.rstrip(ch): drop every trailing ch
rstrip(s, ch) ==
  IF s # <<>> /\ s[Len(s)] = ch THEN rstrip(SubSeq(s, 1, Len(s) - 1), ch) ELSE s

RECURSIVE lstrip(_, _)
lstrip(s, ch) ==
  IF s # <<>> /\ s[1] = ch THEN lstrip(Tail(s), ch) ELSE s

\* str.strip() over the one whitespace character of the model
strip(s) == lstrip(rstrip(s, " "), " ")

\* A URL string is a sequence of tokens: a token is a run of letters ("http",
\* "A", "x") or one punctuation character. Url builds the string of a URL
\* from its scheme, host, path and query.
Url(scheme, netloc, path, query) ==
  (IF scheme # "" THEN <<scheme, ":">> ELSE <<>>)
  \o (IF netloc # "" THEN <<"/", "/", netloc>> ELSE <<>>)
  \o path
  \o (IF query # "" THEN <<"?", query>> ELSE <<>>)

\* the empty string as a URL (falsy in Python)
EmptyUrl == Url("", "", <<>>, "")

\* the punctuation of URL strings; every other token is a run of letters
Punctuation == {":", "/", "?", "#", ";", "[", "]"}

\* str.find: the first position of ch in s, 0 when there is none
Find(s, ch) ==
  IF \E i \in 1..Len(s) : s[i] = ch
  THEN CHOOSE i \in 1..Len(s) : s[i] = ch /\ \A j \in 1..(i - 1) : s[j] # ch
  ELSE 0

\* str.rfind: the last position of ch in s, 0 when there is none
RFind(s, ch) ==
  IF \E i \in 1..Len(s) : s[i] = ch
  THEN CHOOSE i \in 1..Len(s) : s[i] = ch /\ \A j \in (i + 1)..Len(s) : s[j] # ch
  ELSE 0

\* s[i:] of Python, for a position i of the model (counted from 1)
From(s, i) == SubSeq(s, i, Len(s))

\* str.lower of a token sequence
LowerAll(s) == [i \in 1..Len(s) |-> lower(s[i])]

\* the exception urlsplit raises ("Invalid IPv6 URL", or the one of
\* _check_bracketed_host), as the outcome of a call that returns a string
ValueError == <<"ValueError">>

\* uses_netloc and uses_params of urllib.parse, as far as the schemes of the
\* model go: both hold "" and "http"
uses_netloc == {<<>>, <<"http">>}
uses_params == {<<>>, <<"http">>}

\* urlsplit, first step: "scheme:" is split off when the ":" is not the first
\* character and only scheme characters precede it
SplitScheme(url) ==
  LET i == Find(url, ":") IN
  IF i > 1 /\ \A j \in 1..(i - 1) : url[j] \notin Punctuation
  THEN [scheme |-> LowerAll(SubSeq(url, 1, i - 1)), rest |-> From(url, i + 1)]
  ELSE [scheme |-> <<>>, rest |-> url]

\* _splitnetloc(url, 2): the host part ends at the first of "/", "?", "#"
SplitNetloc(url) ==
  LET ends == {i \in 3..Len(url) : url[i] \in {"/", "?", "#"}}
      delim == IF ends = {} THEN Len(url) + 1
               ELSE CHOOSE i \in ends : \A j \in ends : i <= j
  IN [netloc |-> SubSeq(url, 3, delim - 1), rest |-> From(url, delim)]

\* the bracket tests of urlsplit: a "[" without "]" or a "]" without "[" is
\* an invalid IPv6 URL, and a bracketed host must be an IP address, which no
\* host made of the letters of the model is
BadNetloc(netloc) ==
  \E i \in 1..Len(netloc) : netloc[i] \in {"[", "]"}

\* The element of a one-element set. A local of the code that later steps
\* read several times is bound as the element of a one-element set, so that
\* it is computed once, as the assignment of the code is.
The(S) == CHOOSE x \in S : TRUE

\* urlsplit: scheme, netloc, path, query, fragment; raises is the ValueError.
\* The locals are, in the order of the code: s1 (the scheme split off), s2
\* (the netloc split off), noFrag (the rest without the fragment).
urlsplit(url) ==
  The({LET hasNet == Len(s1.rest) >= 2 /\ s1.rest[1] = "/" /\ s1.rest[2] = "/" IN
       The({LET h == Find(s2.rest, "#") IN
            The({LET q == Find(noFrag, "?") IN
                 [raises |-> hasNet /\ BadNetloc(s2.netloc),
                  scheme |-> s1.scheme,
                  netloc |-> s2.netloc,
                  path |-> IF q > 0 THEN SubSeq(noFrag, 1, q - 1) ELSE noFrag,
                  query |-> IF q > 0 THEN From(noFrag, q + 1) ELSE <<>>,
                  fragment |-> IF h > 0 THEN From(s2.rest, h + 1) ELSE <<>>]
                 : noFrag \in {IF h > 0 THEN SubSeq(s2.rest, 1, h - 1) ELSE s2.rest}})
            : s2 \in {IF hasNet THEN SplitNetloc(s1.rest)
                      ELSE [netloc |-> <<>>, rest |-> s1.rest]}})
       : s1 \in {SplitScheme(url)}})

\* _splitparams: the parameters are what follows the first ";" of the last
\* path segment
SplitParams(url) ==
  LET slash == RFind(url, "/")
      semi == IF slash > 0
              THEN (LET k == Find(From(url, slash), ";") IN
                    IF k > 0 THEN slash + k - 1 ELSE 0)
              ELSE Find(url, ";")
  IN IF semi = 0 THEN [path |-> url, params |-> <<>>]
     ELSE [path |-> SubSeq(url, 1, semi - 1), params |-> From(url, semi + 1)]

\* urlparse: urlsplit, then the parameters split off the path
urlparse(url) ==
  The({The({[raises |-> u.raises, scheme |-> u.scheme, netloc |-> u.netloc,
             path |-> sp.path, params |-> sp.params, query |-> u.query,
             fragment |-> u.fragment]
            : sp \in {IF u.scheme \in uses_params /\ Find(u.path, ";") > 0
                      THEN SplitParams(u.path) ELSE [path |-> u.path, params |-> <<>>]}})
       : u \in {urlsplit(url)}})

\* urlunparse, through urlunsplit
urlunparse(scheme, netloc, path, params, query, fragment) ==
  LET url0 == IF params # <<>> THEN path \o <<";">> \o params ELSE path
      slashes == Len(url0) >= 2 /\ url0[1] = "/" /\ url0[2] = "/"
      url1 == IF netloc # <<>> \/ (scheme # <<>> /\ scheme \in uses_netloc /\ ~slashes)
              THEN <<"/", "/">> \o netloc
                   \o (IF url0 # <<>> /\ url0[1] # "/" THEN <<"/">> ELSE <<>>) \o url0
              ELSE url0
      url2 == IF scheme # <<>> THEN scheme \o <<":">> \o url1 ELSE url1
      url3 == IF query # <<>> THEN url2 \o <<"?">> \o query ELSE url2
  IN IF fragment # <<>> THEN url3 \o <<"#">> \o fragment ELSE url3

\* canon of crawl_and_rank.py: scheme kept, host lower-cased, trailing slashes
\* of the path dropped, params, query and fragment discarded; the ValueError
\* of urlparse is not caught
canon(url) ==
  The({IF u.raises THEN ValueError
       ELSE urlunparse(u.scheme, LowerAll(u.netloc), rstrip(u.path, "/"), <<>>, <<>>, <<>>)
       : u \in {urlparse(url)}})

\* sha1 of crawl_extract.py: the key depends on the URL string alone
\* (variant: one key for every URL)
sha1_OneKey(u) == <<"sha1", <<>>>>
sha1(u) == <<"sha1", u>>

\* ------------------------------------------------------------------- files
\* A file is a sequence of tokens: the serialisation of one JSON value, a
\* proper non-empty prefix of one (what a torn write leaves), or a newline.
Json(v) == [k |-> "json", v |-> v]
Frag == [k |-> "frag"]
NL == [k |-> "nl"]

AbsentFile == [exists |-> FALSE, data |-> <<>>]
FileOf(data) == [exists |-> TRUE, data |-> data]

RECURSIVE Dump(_)
\* the text write_jsonl writes for rows: json.dumps(r) + "\n" for each row
Dump(rows) ==
  IF rows = <<>> THEN <<>> ELSE <<Json(Head(rows)), NL>> \o Dump(Tail(rows))

RECURSIVE SplitLines(_, _)
\* iteration over the lines of a file: cur is the line being collected
SplitLines(data, cur) ==
  IF data = <<>> THEN (IF cur = <<>> THEN <<>> ELSE <<cur>>)
  ELSE IF Head(data).k = "nl" THEN <<cur>> \o SplitLines(Tail(data), <<>>)
  ELSE SplitLines(Tail(data), Append(cur, Head(data)))

\* json.loads succeeds on a line that is exactly one complete JSON value
Parses(line) == Len(line) = 1 /\ line[1].k = "json"

RECURSIVE ParseLines(_)
ParseLines(lines) ==
  IF lines = <<>> THEN <<>>
  ELSE IF Head(lines) = <<>> THEN ParseLines(Tail(lines))
  ELSE IF Parses(Head(lines)) THEN <<Head(lines)[1].v>> \o ParseLines(Tail(lines))
  ELSE ParseLines(Tail(lines))

\* read_jsonl: nothing for a missing file; blank lines and lines json.loads
\* rejects are skipped
read_jsonl(f) ==
  IF ~f.exists THEN <<>> ELSE ParseLines(SplitLines(f.data, <<>>))

\* write_jsonl of crawl_extract.py opens the file in append mode
\* (variant: the file opened in write mode, as write_jsonl of crawl_and_rank.py)
write_jsonl_w(f, rows) == FileOf(Dump(rows))
write_jsonl(f, rows) == FileOf(f.data \o Dump(rows))


\* --------------------------------------------------- input normalisation
\* A JSON object is a record of its keys. A JSON value that is not an object
\* is a record with the one field jsontype: a number (as are null, true and
\* false: "k in d" raises TypeError on them) or an array ("k in d" is False).
JsonNumber == [jsontype |-> "number"]
JsonArray == [jsontype |-> "array"]

\* "k in d" raises TypeError
NotIterable(d) == "jsontype" \in DOMAIN d /\ d.jsontype = "number"

\* an exception that escapes a function returning a list, as its outcome
Exc(e) == <<[exc |-> e]>>
IsExc(r) == r # <<>> /\ "exc" \in DOMAIN r[1]

\* truthiness of a JSON value of the model: URL values are falsy when they
\* are the empty string, text values when they are ""
Truthy(k, v) == IF k \in {"url", "link"} THEN v # EmptyUrl ELSE v # ""

RECURSIVE pick(_, _, _)
\* pick(d, *keys, default): the first d[k] that is present and truthy
pick(d, keys, default) ==
  IF keys = <<>> THEN default
  ELSE IF Head(keys) \in DOMAIN d /\ Truthy(Head(keys), d[Head(keys)]) THEN d[Head(keys)]
  ELSE pick(d, Tail(keys), default)

RECURSIVE NormaliseRecs(_, _)
\* the first loop of load_items over the records of one file
NormaliseRecs(recs, name) ==
  IF recs = <<>> THEN <<>>
  ELSE LET rec == Head(recs)
           url == pick(rec, <<"url", "link">>, EmptyUrl)
           title == pick(rec, <<"title", "htmlTitle">>, "")
       IN (IF url = EmptyUrl THEN <<>>
           ELSE <<[url |-> url, title |-> title, source_file |-> name]>>)
          \o NormaliseRecs(Tail(recs), name)

RECURSIVE DedupByUrl(_, _)
\* the second loop of load_items: keep the first item of each url string
DedupByUrl(its, seen) ==
  IF its = <<>> THEN <<>>
  ELSE IF Head(its).url \in seen THEN DedupByUrl(Tail(its), seen)
  ELSE <<Head(its)>> \o DedupByUrl(Tail(its), seen \cup {Head(its).url})

\* names of INPUT_FILES, in order
InputNames == <<"google_data.jsonl", "rss_data.jsonl">>

\* load_items: the TypeError of pick on a record that is not iterable is not
\* caught
load_items(files) ==
  LET recs == read_jsonl(files[1]) \o read_jsonl(files[2]) IN
  IF \E i \in 1..Len(recs) : NotIterable(recs[i]) THEN Exc("TypeError")
  ELSE DedupByUrl(NormaliseRecs(read_jsonl(files[1]), InputNames[1])
                  \o NormaliseRecs(read_jsonl(files[2]), InputNames[2]), {})

RECURSIVE UniqueLoop(_, _)
\* the loop of unique_by_url: seen is the dict, kept as the list of its
\* values in insertion order
UniqueLoop(its, seen) ==
  IF its = <<>> THEN seen
  ELSE LET it == Head(its) IN
       IF "url" \notin DOMAIN it \/ "title" \notin DOMAIN it
       THEN UniqueLoop(Tail(its), seen)
       ELSE LET cu == canon(it.url) IN
            IF cu = ValueError THEN Exc("ValueError")
            ELSE IF \E i \in 1..Len(seen) : seen[i].url = cu
            THEN UniqueLoop(Tail(its), seen)
            ELSE UniqueLoop(Tail(its), Append(seen, [it EXCEPT !.url = cu]))

unique_by_url(its) == UniqueLoop(its, <<>>)

\* load_jsonl of crawl_and_rank.py: blank lines and lines json.loads rejects
\* are skipped
load_jsonl(f) == ParseLines(SplitLines(f.data, <<>>))

RECURSIVE BuildItems(_)
\* the loop of main of crawl_and_rank.py that builds items: a record with
\* the keys url and title gives an item (str.strip leaves the strings of the
\* model, which hold no whitespace, as they are)
BuildItems(recs) ==
  IF recs = <<>> THEN <<>>
  ELSE LET j == Head(recs) IN
       (IF "url" \in DOMAIN j /\ "title" \in DOMAIN j
        THEN <<[id |-> <<"md5", j.url>>, source |-> "rss", title |-> j.title,
                url |-> j.url, published_at |-> None]>>
        ELSE <<>>)
       \o BuildItems(Tail(recs))

\* main of crawl_and_rank.py up to "items = unique_by_url(items)": the rss
\* file is read before the google file; no exception is caught
rank_items(files) ==
  LET recs == (IF files[2].exists THEN load_jsonl(files[2]) ELSE <<>>)
              \o (IF files[1].exists THEN load_jsonl(files[1]) ELSE <<>>)
  IN IF \E i \in 1..Len(recs) : NotIterable(recs[i]) THEN Exc("TypeError")
     ELSE unique_by_url(BuildItems(recs))

\* ------------------------------------------------------------ ledger replay
\* done_ok of run_crawl: the url of every replayed record with ok and url
\* (variants: without the test of ok; with done_ok left empty)
ReplayOk_AnyRecord(f) ==
  LET recs == read_jsonl(f) IN
  {recs[i].url : i \in {j \in 1..Len(recs) : recs[j].url # EmptyUrl}}
ReplayOk_Nothing(f) == {}
ReplayOk(f) ==
  LET recs == read_jsonl(f) IN
  {recs[i].url : i \in {j \in 1..Len(recs) : recs[j].ok /\ recs[j].url # EmptyUrl}}

\* pending of run_crawl: the items whose url is not in done_ok, in order
\* (variant: done_ok ignored)
SelectPending_All(its, ok) == its
SelectPending(its, ok) == SelectSeq(its, LAMBDA it : it.url \notin ok)

\* ---------------------------------------------------------------- curation
\* Numbers of curate_results.py are fixed-point integers: a signal score is
\* counted in tenths, a weight in hundred-thousandths, a fused score and a
\* bonus in millionths.

\* norm_domain: the lower-cased netloc without a leading "www.", "" when
\* urlparse raises ("www." is one token of a URL string)
norm_domain(u) ==
  The({LET netloc == LowerAll(p.netloc)
       IN IF p.raises THEN <<>>
          ELSE IF netloc # <<>> /\ netloc[1] = "www." THEN Tail(netloc)
          ELSE netloc
       : p \in {urlparse(u)}})

\* domain_score: 0.3 without a domain, 1.0 for a domain of the preferred
\* list, 0.0 for one of the avoided list, 0.6 otherwise; the entries of the
\* lists are lower-cased
domain_score(domain, prefer_domains, avoid_domains) ==
  IF domain = <<>> THEN 3
  ELSE IF \E i \in 1..Len(prefer_domains) : LowerAll(prefer_domains[i]) = domain THEN 10
  ELSE IF \E i \in 1..Len(avoid_domains) : LowerAll(avoid_domains[i]) = domain THEN 0
  ELSE 6

\* recency_score on the timestamps of the model: 0.2 without a timestamp,
\* 1.0 for one of today, 0.0 (to the tenth) for one many half-lives old
recency_score(fetched_at) ==
  IF fetched_at = None THEN 2
  ELSE IF fetched_at = Some("today") THEN 10
  ELSE 0

\* the weighted sum of main
\* (variant: the weight of the domain signal left out)
fuse_no_domain(w, ks, ds, rs, ls) == (w.keyword * ks) + (w.recency * rs) + (w.length * ls)
fuse(w, ks, ds, rs, ls) ==
  (w.keyword * ks) + (w.domain * ds) + (w.recency * rs) + (w.length * ls)

\* reason_bits of main
reason_bits(ks, ds, rs, n_chars, limits) ==
  (IF ks > 0 THEN <<"keywords+">> ELSE <<>>)
  \o (IF ds >= 9 THEN <<"prefer-domain">> ELSE <<>>)
  \o (IF ds = 0 THEN <<"avoid-domain">> ELSE <<>>)
  \o (IF rs > 7 THEN <<"very-recent">> ELSE <<>>)
  \o (IF n_chars < limits.min_chars THEN <<"too-short">> ELSE <<>>)
  \o (IF n_chars > limits.max_chars THEN <<"too-long">> ELSE <<>>)

\* A page file as read_text and the scorers see it: chars is the length of
\* the text after the meta comment, ks and ls are what keyword_score and
\* length_score return for it. read_text gives "" for a missing file.
NoPage == [chars |-> 0, ks |-> 0, ls |-> 0, text |-> FALSE]
PageOf(chars, ks, ls) == [chars |-> chars, ks |-> ks, ls |-> ls, text |-> TRUE]

\* r.get(key) of a fetch record
Get(r, key, default) == IF key \in DOMAIN r THEN r[key] ELSE default

RECURSIVE ScoreRows(_, _, _)
\* the scoring loop of main over rows; store maps a markdown_path to its
\* page file
ScoreRows(profile, rows, store) ==
  IF rows = <<>> THEN <<>>
  ELSE LET r == Head(rows)
           markdown_path == Get(r, "markdown_path", None)
           page == IF markdown_path = None \/ markdown_path.s \notin DOMAIN store THEN NoPage
                   ELSE store[markdown_path.s]
           fetched_at == IF profile.use_fetched_at THEN Get(r, "fetched_at", None) ELSE None
           domain == norm_domain(r.url)
           ds == domain_score(domain, [i \in 1..Len(profile.prefer_domains) |->
                                         LowerAll(profile.prefer_domains[i])],
                              [i \in 1..Len(profile.avoid_domains) |->
                                 LowerAll(profile.avoid_domains[i])])
           rs == recency_score(fetched_at)
       IN (IF ~Get(r, "ok", FALSE) \/ markdown_path = None \/ ~page.text THEN <<>>
           ELSE <<[url |-> r.url, title |-> r.title, domain |-> domain,
                   score_raw |-> fuse(profile.weights, page.ks, ds, rs, page.ls),
                   reasons |-> reason_bits(page.ks, ds, rs, page.chars, profile.limits),
                   fetched_at |-> fetched_at, markdown_path |-> markdown_path,
                   chars |-> page.chars]>>)
          \o ScoreRows(profile, Tail(rows), store)

RECURSIVE InsertDesc(_, _)
\* x put into the list sorted, which is in descending order of the keys k,
\* after every entry whose key is not smaller
\* (variant: before the entries of the same key)
InsertDescBeforeEqual(x, sorted) ==
  IF sorted = <<>> THEN <<x>>
  ELSE IF Head(sorted).k > x.k
  THEN <<Head(sorted)>> \o InsertDesc(x, Tail(sorted))
  ELSE <<x>> \o sorted
InsertDesc(x, sorted) ==
  IF sorted = <<>> THEN <<x>>
  ELSE IF Head(sorted).k >= x.k
  THEN <<Head(sorted)>> \o InsertDesc(x, Tail(sorted))
  ELSE <<x>> \o sorted

RECURSIVE SortLoop(_, _)
SortLoop(entries, sorted) ==
  IF entries = <<>> THEN sorted
  ELSE SortLoop(Tail(entries), InsertDesc(Head(entries), sorted))

\* list.sort(key=..., reverse=True) on a list whose entries pair an item v
\* with its key k: descending, items of equal key stay in the order they had
SortDesc(entries) ==
  LET sorted == SortLoop(entries, <<>>) IN [i \in 1..Len(sorted) |-> sorted[i].v]

\* seq[:n] of Python
Slice(list, n) ==
  IF n >= 0 THEN SubSeq(list, 1, IF n < Len(list) THEN n ELSE Len(list))
  ELSE SubSeq(list, 1, IF Len(list) + n > 0 THEN Len(list) + n ELSE 0)

\* seq[n:] of Python
SliceFrom(list, n) ==
  IF n >= 0 THEN SubSeq(list, (IF n < Len(list) THEN n ELSE Len(list)) + 1, Len(list))
  ELSE SubSeq(list, (IF Len(list) + n > 0 THEN Len(list) + n ELSE 0) + 1, Len(list))

\* "x or d" on a configured number that may be absent (None) or 0
OrDefault(x, d) == IF x = None \/ x = Some(0) THEN d ELSE x.s

\* min(0.1, math.log1p(chars) / 10000.0) in millionths, for the lengths of
\* the model
bonus_of(chars) ==
  CASE chars <= 0 -> 0
    [] chars = 1 -> 69
    [] chars = 2 -> 109
    [] chars = 3 -> 138
    [] OTHER -> 160

\* top_k of main
\* (variant: the cutoff not applied)
top_k_all(llm_cfg, n) == n
top_k_of(llm_cfg, n) ==
  LET k == OrDefault(llm_cfg.top_k_for_llm, 60) IN IF k < n THEN k ELSE n

\* the re-score pass of main: the list with score_llm and score set
rescore(llm_cfg, scored) ==
  IF llm_cfg.llm_enabled
  THEN LET top_k == top_k_of(llm_cfg, Len(scored))
           sorted == SortDesc([i \in 1..Len(scored) |-> [k |-> scored[i].score_raw, v |-> scored[i]]])
           head == Slice(sorted, top_k)
           tail == SliceFrom(sorted, top_k)
       IN [i \in 1..Len(head) |->
             [url |-> head[i].url, title |-> head[i].title, domain |-> head[i].domain,
              score_raw |-> head[i].score_raw,
              reasons |-> Append(head[i].reasons, "llm:bonus"),
              fetched_at |-> head[i].fetched_at, markdown_path |-> head[i].markdown_path,
              chars |-> head[i].chars,
              score_llm |-> bonus_of(head[i].chars),
              score |-> head[i].score_raw + bonus_of(head[i].chars)]]
          \o [i \in 1..Len(tail) |->
                [url |-> tail[i].url, title |-> tail[i].title, domain |-> tail[i].domain,
                 score_raw |-> tail[i].score_raw, reasons |-> tail[i].reasons,
                 fetched_at |-> tail[i].fetched_at, markdown_path |-> tail[i].markdown_path,
                 chars |-> tail[i].chars, score_llm |-> 0, score |-> tail[i].score_raw]]
  ELSE [i \in 1..Len(scored) |->
          [url |-> scored[i].url, title |-> scored[i].title, domain |-> scored[i].domain,
           score_raw |-> scored[i].score_raw, reasons |-> scored[i].reasons,
           fetched_at |-> scored[i].fetched_at, markdown_path |-> scored[i].markdown_path,
           chars |-> scored[i].chars, score_llm |-> 0, score |-> scored[i].score_raw]]

\* top of main
final_top(list, final_n) == Slice(list, final_n)

\* main of curate_results.py: st is "empty" when it returns before writing
\* (no rows, or nothing scored), else scored is the list after the last sort
\* and top what is written to curated.jsonl
curate_main(profile, rows, store) ==
  LET scored0 == IF rows = <<>> THEN <<>> ELSE ScoreRows(profile, rows, store)
      rescored == rescore(profile.llm, scored0)
      ranked1 == SortDesc([i \in 1..Len(rescored) |-> [k |-> rescored[i].score, v |-> rescored[i]]])
      final_n == OrDefault(profile.limits.final_n, 40)
  IN IF scored0 = <<>> THEN [st |-> "empty", scored |-> <<>>, top |-> <<>>]
     ELSE [st |-> "done", scored |-> ranked1, top |-> final_top(ranked1, final_n)]

\* ------------------------------------------------------------------- state
VARIABLES
  inputs,         \* the two files of INPUT_FILES
  ledger,         \* the file OUT_JSONL
  pages,          \* the names of the files of OUT_MD_DIR
  pc,             \* position of the run_crawl process
  run,            \* number of run_crawl processes started so far
  items,          \* run_crawl: items
  done_ok,        \* run_crawl: done_ok
  pending,        \* run_crawl: pending
  tasks,          \* one fetch_one task per pending item
  sem,            \* value of the semaphore
  done_q,         \* results of finished tasks that as_completed has not yielded yet
  todo,           \* number of results as_completed has still to yield
  results_batch,  \* run_crawl: results_batch
  base,           \* length of the ledger when the running process started
  faults,         \* number of crawler.arun calls that have failed so far
  canon_arg,      \* the URL string canon is applied to
  canon_ret,      \* what the successive applications of canon have returned
  cand_files,     \* the candidate files the working sets are built from
  working,        \* the outcomes of load_items and of main of crawl_and_rank.py
  profile,        \* curate_results.py: the configuration (profile.yaml, llm.yaml)
  contents,       \* curate_results.py: the file CONTENTS_JSONL it reads
  ranked,         \* curate_results.py: scored, as main leaves it
  curated,        \* curate_results.py: the file CURATED_JSONL
  clock,          \* the time, in seconds since the first run started
  stamps,         \* per task, the times fetch_one reads, computes or waits for
  score_cfg,      \* scoring: the program that scores, its parameters and its clock
  score_in,       \* scoring: the items the loop goes through
  score_out,      \* scoring: the signals of the items scored so far
  score_pc        \* scoring: position of the loop, or the exception that ended it

\* the state of the crawl
crawlVars == <<inputs, ledger, pages, pc, run, items, done_ok, pending, tasks, sem,
               done_q, todo, results_batch, base, faults>>

\* the state of the evaluation of canon, and of the building of the working sets
canonVars == <<canon_arg, canon_ret>>
loadVars == <<cand_files, working>>

\* the state of a run of curate_results.py
curateVars == <<profile, contents, ranked, curated>>

\* the time and what the tasks do with it
timeVars == <<clock, stamps>>

\* the state of the scoring of a list of items, scorer by scorer
scoreVars == <<score_cfg, score_in, score_out, score_pc>>

\* what the crawl leaves alone
pureVars == <<canonVars, loadVars, curateVars, timeVars, scoreVars>>

vars == <<crawlVars, canonVars, loadVars, curateVars, timeVars, scoreVars>>

\* ------------------------------------------------------------------ inputs
uA == Url("http", "A", <<"/", "x">>, "")
ua == Url("http", "a", <<"/", "x", "/">>, "")
ub == Url("http", "b", <<"/", "y">>, "q")

rA == [url |-> uA, title |-> "t1"]
ra == [url |-> ua, title |-> "t2"]
rb == [link |-> ub, htmlTitle |-> "t3"]
rA2 == [url |-> uA, title |-> "t5"]
rNoUrl == [title |-> "t4"]
rEmptyUrl == [url |-> EmptyUrl, title |-> "t6"]

\* the contents of (google_data.jsonl, rss_data.jsonl) the model starts from
InputChoices ==
  { <<FileOf(Dump(<<rA, ra, rNoUrl>>)), FileOf(Dump(<<rb, rA2>>))>>,
    <<AbsentFile, FileOf(Dump(<<rA, rA2>>))>>,
    <<FileOf(Dump(<<rb, rA>>)), FileOf(<<>>)>>,
    <<FileOf(Dump(<<rNoUrl, rEmptyUrl>>)), AbsentFile>>,
    <<AbsentFile, AbsentFile>> }

\* what crawler.arun can do: raise, or return a result whose markdown is
\* None or a string
ArunOutcomes ==
  {[exc |-> TRUE, markdown |-> None]} \cup
  {[exc |-> FALSE, markdown |-> m] :
     m \in {None, Some(<<>>), Some(<<" ">>), Some(<<" ", "x", " ">>)}}

ErrEmpty == "RuntimeError: Empty markdown"
ErrArun == "Exception: arun"

\* ---------------------------------------------------------------- fetch_one
\* out of fetch_one as first built
NewOut(item) ==
  [url |-> item.url, title |-> item.title, source_file |-> item.source_file,
   fetched_at |-> Some("today"),
   ok |-> FALSE, error |-> None, markdown_path |-> None, markdown_chars |-> 0]

\* A task: st is its position (waiting for the semaphore, fetching = inside
\* crawler.arun, sleeping = inside asyncio.sleep, ok / failed = returned),
\* attempt and last_err are the locals of fetch_one, calls counts the calls
\* of crawler.arun it has made. last_err is written at every failure before
\* it is read, so it is kept only until the next attempt starts; the locals
\* of a task that has returned are gone.
NewTask == [st |-> "waiting", attempt |-> 0, calls |-> 0, last_err |-> "unset"]

\* (result.markdown or "").strip()
Markdown(result) == strip(IF result.markdown.none THEN <<>> ELSE result.markdown.s)

\* "if not md": an empty text is a failure
\* (variant: without the test)
EmptyMdAccepted(md) == FALSE
EmptyMd(md) == md = <<>>

\* "if attempt > retries": no attempt is left
\* (variant: one attempt too many)
GiveUpLate(attempt) == attempt > retries + 1
GiveUp(attempt) == attempt > retries

\* a permit of the semaphore is free
\* (variants: no semaphore; one permit too many)
PermitAlways(s) == TRUE
PermitFree_OneMore(s) == s >= 0
PermitFree(s) == s > 0

\* an outcome of a function that returns a list: not called yet, returned
\* or raised
NotRun == [st |-> "notrun", exc |-> "", items |-> <<>>]
Outcome(r) ==
  IF IsExc(r) THEN [st |-> "raised", exc |-> r[1].exc, items |-> <<>>]
  ELSE [st |-> "returned", exc |-> "", items |-> r]

\* no evaluation of canon, no building of the working sets
CanonIdle == canon_arg = <<>> /\ canon_ret = <<>>
LoadIdle ==
  /\ cand_files = <<AbsentFile, AbsentFile>>
  /\ working = [extract |-> NotRun, rank |-> NotRun]

\* the configuration of a run of curate_results.py: the defaults of main
\* where the claims do not vary it, the length band scaled to the pages of
\* the model
ProfileOf(weights, prefer_domains, avoid_domains, final_n, llm) ==
  [weights |-> weights, prefer_domains |-> prefer_domains, avoid_domains |-> avoid_domains,
   limits |-> [final_n |-> final_n, min_chars |-> 2, max_chars |-> 3],
   use_fetched_at |-> TRUE, llm |-> llm]

\* the defaults of the weights
DefaultWeights == [keyword |-> 50000, domain |-> 20000, recency |-> 20000, length |-> 10000]

LlmOff == [llm_enabled |-> FALSE, top_k_for_llm |-> None]
LlmOn(k) == [llm_enabled |-> TRUE, top_k_for_llm |-> k]

DefaultProfile == ProfileOf(DefaultWeights, <<>>, <<>>, None, LlmOff)

\* no run of curate_results.py
CurateIdle ==
  /\ profile = DefaultProfile
  /\ contents = AbsentFile
  /\ ranked = [st |-> "notrun", scored |-> <<>>]
  /\ curated = AbsentFile

\* no time has passed
ClockIdle == clock = 0 /\ stamps = <<>>

\* what the scoring loops read of their configuration: the program that
\* scores ("curate": main of curate_results.py, "rank": main of
\* crawl_and_rank.py), the length band, the half-life and the cutoff as main
\* of curate_results.py takes them from the profile (a missing or zero value
\* is replaced by the default), and the keyword lists
ScoreCfgOf(prog, min_chars, max_chars, half_life_days, hard_days_cutoff, include_kw, exclude_kw) ==
  [prog |-> prog,
   min_chars |-> OrDefault(min_chars, 500),
   max_chars |-> OrDefault(max_chars, 150000),
   half_life_days |-> OrDefault(half_life_days, 14),
   hard_days_cutoff |-> OrDefault(hard_days_cutoff, 365),
   include_kw |-> include_kw,
   exclude_kw |-> exclude_kw]

\* an empty profile
DefaultScoreCfg == ScoreCfgOf("curate", None, None, None, None, Some(<<>>), Some(<<>>))

\* no item is being scored
ScoreIdle ==
  /\ score_cfg = DefaultScoreCfg
  /\ score_in = <<>>
  /\ score_out = <<>>
  /\ score_pc = "idle"

Init ==
  /\ CanonIdle
  /\ LoadIdle
  /\ CurateIdle
  /\ ClockIdle
  /\ ScoreIdle
  /\ inputs \in InputChoices
  /\ ledger = AbsentFile
  /\ pages = {}
  /\ pc = "idle"
  /\ run = 0
  /\ items = <<>>
  /\ done_ok = {}
  /\ pending = <<>>
  /\ tasks = <<>>
  /\ sem = 0
  /\ done_q = <<>>
  /\ todo = 0
  /\ results_batch = <<>>
  /\ base = 0
  /\ faults = 0

\* run_crawl from its start to the first await of the loop: load the items,
\* replay the ledger, compute pending, create the semaphore and the tasks
Startup ==
  /\ pc \in {"idle", "returned", "done", "killed"}
  /\ run < MaxRuns
  /\ run' = run + 1
  /\ base' = Len(ledger.data)
  /\ LET its == load_items(inputs)
         ok == IF its = <<>> THEN {} ELSE ReplayOk(ledger)
         pend == SelectPending(its, ok)
     IN /\ items' = its
        /\ done_ok' = ok
        /\ pending' = pend
        /\ tasks' = [t \in 1..Len(pend) |-> NewTask]
        /\ todo' = Len(pend)
        /\ sem' = IF pend = <<>> THEN 0 ELSE concurrency
        /\ pc' = IF pend = <<>> THEN "returned" ELSE "loop"
  /\ done_q' = <<>>
  /\ results_batch' = <<>>
  /\ UNCHANGED <<inputs, ledger, pages, faults>>

\* a task enters "async with sem" and makes its first call of crawler.arun
Acquire(t) ==
  /\ pc = "loop"
  /\ tasks[t].st = "waiting"
  /\ PermitFree(sem)
  /\ sem' = sem - 1
  /\ tasks' = [tasks EXCEPT ![t] = [@ EXCEPT !.st = "fetching", !.calls = @ + 1]]
  /\ UNCHANGED <<inputs, ledger, pages, pc, run, items, done_ok, pending, done_q,
                 todo, results_batch, base, faults>>

\* crawler.arun returns or raises, and fetch_one runs to its return or to
\* the sleep before the next attempt
Fetch(t, result) ==
  /\ pc = "loop"
  /\ tasks[t].st = "fetching"
  /\ LET item == pending[t]
         md == Markdown(result)
         failed == result.exc \/ EmptyMd(md)
         err == IF result.exc THEN ErrArun ELSE ErrEmpty
         attempt1 == tasks[t].attempt + 1
     IN /\ failed => faults < MaxFaults
        /\ faults' = IF failed THEN faults + 1 ELSE faults
        /\ IF ~failed
           THEN /\ pages' = pages \cup {sha1(item.url)}
                /\ tasks' = [tasks EXCEPT ![t] = [@ EXCEPT !.st = "ok", !.attempt = 0]]
                /\ done_q' = Append(done_q, [NewOut(item) EXCEPT !.ok = TRUE,
                                               !.markdown_path = Some(sha1(item.url)),
                                               !.markdown_chars = Len(md)])
                /\ sem' = sem + 1
           ELSE IF GiveUp(attempt1)
           THEN /\ tasks' = [tasks EXCEPT ![t] = [@ EXCEPT !.st = "failed", !.attempt = 0]]
                /\ done_q' = Append(done_q, [NewOut(item) EXCEPT !.error = Some(err)])
                /\ sem' = sem + 1
                /\ pages' = pages
           ELSE /\ tasks' = [tasks EXCEPT ![t] = [@ EXCEPT !.st = "sleeping", !.attempt = attempt1,
                                                           !.last_err = err]]
                /\ UNCHANGED <<done_q, sem, pages>>
  /\ UNCHANGED <<inputs, ledger, pc, run, items, done_ok, pending, todo, results_batch, base>>

\* the backoff sleep ends and the loop makes the next call of crawler.arun
Wake(t) ==
  /\ pc = "loop"
  /\ tasks[t].st = "sleeping"
  /\ tasks' = [tasks EXCEPT ![t] = [@ EXCEPT !.st = "fetching", !.calls = @ + 1,
                                             !.last_err = "unset"]]
  /\ UNCHANGED <<inputs, ledger, pages, pc, run, items, done_ok, pending, sem, done_q,
                 todo, results_batch, base, faults>>

\* "if len(results_batch) >= batch_size": the batch is full
\* (variant: no flush inside the loop)
FlushDueNever(batch) == FALSE
FlushDue(batch) == Len(batch) >= batch_size

\* one round of "for coro in asyncio.as_completed(tasks)": take the next
\* result, put it in the batch, flush the batch when it is full
Consume ==
  /\ pc = "loop"
  /\ done_q # <<>>
  /\ LET batch1 == Append(results_batch, Head(done_q)) IN
     IF FlushDue(batch1)
     THEN /\ ledger' = write_jsonl(ledger, batch1)
          /\ results_batch' = <<>>
     ELSE /\ results_batch' = batch1
          /\ ledger' = ledger
  /\ done_q' = Tail(done_q)
  /\ todo' = todo - 1
  /\ pc' = IF todo' = 0 THEN "closing" ELSE "loop"
  /\ UNCHANGED <<inputs, pages, run, items, done_ok, pending, tasks, sem, base, faults>>

\* the memory of a process that has ended
Gone ==
  /\ items' = <<>>
  /\ done_ok' = {}
  /\ pending' = <<>>
  /\ tasks' = <<>>
  /\ sem' = 0
  /\ done_q' = <<>>
  /\ todo' = 0
  /\ results_batch' = <<>>
  /\ base' = 0

\* the flush of what is left ("if results_batch: write_jsonl(...)")
\* (variant: no last flush)
FlushRestSkipped(f, batch) == f
FlushRest(f, batch) == IF batch # <<>> THEN write_jsonl(f, batch) ELSE f

\* the crawler is closed, the rest of the batch is flushed, run_crawl returns
Finish ==
  /\ pc = "closing"
  /\ ledger' = FlushRest(ledger, results_batch)
  /\ pc' = "done"
  /\ Gone
  /\ UNCHANGED <<inputs, pages, run, faults>>

\* what a write_jsonl call cut short leaves of its rows: some complete
\* lines, then nothing, a part of the next line, or that line without its
\* newline
TornWrites(rows) ==
  UNION {{Dump(SubSeq(rows, 1, n)) \o tail :
            tail \in {<<>>, <<Frag>>, <<Json(rows[n + 1])>>}} :
         n \in 0..(Len(rows) - 1)}

\* the process is killed while no write of the ledger is under way
Kill ==
  /\ pc \in {"loop", "closing"}
  /\ pc' = "killed"
  /\ Gone
  /\ UNCHANGED <<inputs, ledger, pages, run, faults>>

\* the process is killed inside a write_jsonl call, of the loop or of the
\* last flush: a part of the rows has reached the file
KillInWrite ==
  /\ \/ /\ pc = "loop"
        /\ done_q # <<>>
        /\ FlushDue(Append(results_batch, Head(done_q)))
        /\ \E torn \in TornWrites(Append(results_batch, Head(done_q))) :
             /\ torn # <<>>
             /\ ledger' = FileOf(ledger.data \o torn)
     \/ /\ pc = "closing"
        /\ results_batch # <<>>
        /\ \E torn \in TornWrites(results_batch) :
             /\ torn # <<>>
             /\ ledger' = FileOf(ledger.data \o torn)
  /\ pc' = "killed"
  /\ Gone
  /\ UNCHANGED <<inputs, pages, run, faults>>

Next ==
  \/ Startup /\ UNCHANGED pureVars
  \/ (\E t \in DOMAIN tasks : Acquire(t)) /\ UNCHANGED pureVars
  \/ (\E t \in DOMAIN tasks : \E result \in ArunOutcomes : Fetch(t, result))
       /\ UNCHANGED pureVars
  \/ (\E t \in DOMAIN tasks : Wake(t)) /\ UNCHANGED pureVars
  \/ Consume /\ UNCHANGED pureVars
  \/ Finish /\ UNCHANGED pureVars
  \/ Kill /\ UNCHANGED pureVars
  \/ KillInWrite /\ UNCHANGED pureVars

Spec == Init /\ [][Next]_vars

\* the crawl before any run_crawl process has started, with no input files
CrawlIdle ==
  /\ inputs = <<AbsentFile, AbsentFile>>
  /\ ledger = AbsentFile
  /\ pages = {}
  /\ pc = "idle"
  /\ run = 0
  /\ items = <<>>
  /\ done_ok = {}
  /\ pending = <<>>
  /\ tasks = <<>>
  /\ sem = 0
  /\ done_q = <<>>
  /\ todo = 0
  /\ results_batch = <<>>
  /\ base = 0
  /\ faults = 0
  /\ ClockIdle

\* ---------------------------------------------------------- canon, applied
\* length of the URL strings canon is tried on
MaxUrlLen == 4

\* the tokens of the URL strings canon is tried on
UrlAlphabet == {"http", "A", ":", "/", "?", "#", ";", "[", "]"}

\* URL strings: every string of at most MaxUrlLen tokens, and four longer ones
UrlStrings ==
  UNION {[1..n -> UrlAlphabet] : n \in 0..MaxUrlLen}
  \cup {uA, ua, ub,
        Url("http", "A", <<"/", "x", ";", "p", "/">>, ""),
        Url("http", "[", <<"/", "x">>, "")}

InitCanon ==
  /\ CrawlIdle
  /\ ScoreIdle
  /\ LoadIdle
  /\ CurateIdle
  /\ canon_arg \in UrlStrings
  /\ canon_ret = <<>>

\* canon is applied to the URL string, then to what it returned
Canon ==
  /\ Len(canon_ret) < 2
  /\ canon_ret # <<>> => canon_ret[Len(canon_ret)] # ValueError
  /\ canon_ret' = Append(canon_ret, canon(IF canon_ret = <<>> THEN canon_arg
                                           ELSE canon_ret[Len(canon_ret)]))
  /\ UNCHANGED <<crawlVars, timeVars, loadVars, curateVars, scoreVars, canon_arg>>

NextCanon == Canon

SpecCanon == InitCanon /\ [][NextCanon]_vars

\* --------------------------------------------- the working sets, built
\* number of lines of the first candidate file
MaxLines == 2

rNoTitle == [url |-> ub]
rBadUrl == [url |-> Url("http", "[", <<"/", "x">>, ""), title |-> "t7"]

\* the lines of a candidate file: an object, a line that is not JSON, a JSON
\* value that is not an object, a blank line
LoadLines ==
  {<<Json(v)>> : v \in {rA, ra, rb, rNoUrl, rEmptyUrl, rNoTitle, rBadUrl,
                        JsonNumber, JsonArray}}
  \cup {<<Frag>>, <<>>}

RECURSIVE JoinLines(_)
\* the text of a file made of the lines ls
JoinLines(ls) ==
  IF ls = <<>> THEN <<>> ELSE Head(ls) \o <<NL>> \o JoinLines(Tail(ls))

\* the candidate files the working sets are built from: every first file of
\* at most MaxLines lines, with a second file that is missing or holds a
\* record of another or of the same URL
LoadFiles ==
  {<<FileOf(JoinLines(ls)), f2>> :
     ls \in UNION {[1..n -> LoadLines] : n \in 0..MaxLines},
     f2 \in {AbsentFile, FileOf(Dump(<<rb>>)), FileOf(Dump(<<rA2>>))}}

InitLoad ==
  /\ CrawlIdle
  /\ ScoreIdle
  /\ CanonIdle
  /\ CurateIdle
  /\ cand_files \in LoadFiles
  /\ working = [extract |-> NotRun, rank |-> NotRun]

\* run_crawl of crawl_extract.py calls load_items(INPUT_FILES)
LoadExtract ==
  /\ working.extract.st = "notrun"
  /\ working' = [working EXCEPT !.extract = Outcome(load_items(cand_files))]
  /\ UNCHANGED <<crawlVars, timeVars, canonVars, curateVars, scoreVars, cand_files>>

\* main of crawl_and_rank.py builds items from the same two files
LoadRank ==
  /\ working.rank.st = "notrun"
  /\ working' = [working EXCEPT !.rank = Outcome(rank_items(cand_files))]
  /\ UNCHANGED <<crawlVars, timeVars, canonVars, curateVars, scoreVars, cand_files>>

NextLoad == LoadExtract \/ LoadRank

SpecLoad == InitLoad /\ [][NextLoad]_vars

\* the file f without the lines that do not satisfy Keep
OnlyLines(f, Keep(_)) ==
  IF ~f.exists THEN f ELSE FileOf(JoinLines(SelectSeq(SplitLines(f.data, <<>>), Keep)))

\* the two candidate files without the lines that do not satisfy Keep
Only(Keep(_)) == <<OnlyLines(cand_files[1], Keep), OnlyLines(cand_files[2], Keep)>>

\* the line holds a JSON object
ObjectLine(l) == Parses(l) /\ "jsontype" \notin DOMAIN l[1].v

\* the line holds a record without a URL (url or link) or without a title
\* (title or htmlTitle), as load_items reads records
LacksForExtract(l) ==
  /\ ObjectLine(l)
  /\ \/ pick(l[1].v, <<"url", "link">>, EmptyUrl) = EmptyUrl
     \/ pick(l[1].v, <<"title", "htmlTitle">>, "") = ""

\* the line holds a record without the key url or without the key title
LacksForRank(l) ==
  ObjectLine(l) /\ ("url" \notin DOMAIN l[1].v \/ "title" \notin DOMAIN l[1].v)

\* C13 as stated: a record that lacks url or title is dropped without an
\* error by load_items and by main of crawl_and_rank.py: the outcome is the
\* one the same files give without those records.
C13_IncompleteDropped ==
  /\ working.extract.st # "notrun" =>
       working.extract = Outcome(load_items(Only(LAMBDA l : ~LacksForExtract(l))))
  /\ working.rank.st # "notrun" =>
       working.rank = Outcome(rank_items(Only(LAMBDA l : ~LacksForRank(l))))

\* C14 as stated: load_items returns for every content of the candidate
\* files, and what it returns is what the well-formed lines alone give.
C14_MalformedSkipped ==
  working.extract.st # "notrun" =>
    /\ working.extract.st = "returned"
    /\ working.extract.items = load_items(Only(ObjectLine))

\* C11 as stated: canon applied to what canon returned returns the same string,
\* for every URL string.
C11_CanonIdempotent == Len(canon_ret) = 2 => canon_ret[2] = canon_ret[1]

\* C12 as stated: canon returns a string for every URL string, and
\* unique_by_url returns for every item list, also with a malformed URL in it.
C12_CanonTotal ==
  /\ \A i \in 1..Len(canon_ret) : canon_ret[i] # ValueError
  /\ canon_ret # <<>> =>
        ~IsExc(unique_by_url(<<[url |-> uA, title |-> "t1"],
                               [url |-> canon_arg, title |-> "t2"]>>))


\* ------------------------------------------------------------- properties
IsPrefix(a, b) == Len(a) <= Len(b) /\ SubSeq(b, 1, Len(a)) = a

Range(q) == {q[i] : i \in 1..Len(q)}

\* the JSON values written in data, complete or not followed by a newline
Written(data) ==
  LET toks == SelectSeq(data, LAMBDA tok : tok.k = "json")
  IN [i \in 1..Len(toks) |-> toks[i].v]

\* the records the ledger replays
Replayed == read_jsonl(ledger)

\* the ledger as the running process found it
LedgerAtStart == FileOf(SubSeq(ledger.data, 1, base))

\* the records the running process has appended to the ledger
AppendedThisRun == Written(SubSeq(ledger.data, base + 1, Len(ledger.data)))

\* every fetch record there is: returned by a task, in the batch, in the ledger
AllRecords == Range(done_q) \cup Range(results_batch) \cup Range(Written(ledger.data))

Running == pc \in {"loop", "closing"}

InFlight == {t \in DOMAIN tasks : tasks[t].st = "fetching"}

C2_BoundedInFlight == Cardinality(InFlight) <= concurrency

\* more pending URLs than permits: all permits taken, a task waiting
C2_Witness ==
  /\ Len(pending) > concurrency
  /\ Cardinality(InFlight) = concurrency
  /\ \E t \in DOMAIN tasks : tasks[t].st = "waiting"

\* the number of records of url u among the results not yet in the ledger
\* and the records appended by the running process
RecordsOf(u) ==
  Len(SelectSeq(done_q \o results_batch \o AppendedThisRun, LAMBDA r : r.url = u))

\* C3: a task makes at most retries + 1 calls of crawler.arun; a task all of
\* whose attempts failed has made exactly retries + 1 calls and has produced
\* exactly one record, with ok=false; a task that has returned makes no
\* further call.
C3_RetryTerminates ==
  /\ [](\A t \in DOMAIN tasks :
          /\ tasks[t].calls <= retries + 1
          /\ tasks[t].st = "failed" =>
               /\ tasks[t].calls = retries + 1
               /\ RecordsOf(pending[t].url) = 1
               /\ \A r \in Range(done_q \o results_batch \o AppendedThisRun) :
                    r.url = pending[t].url => ~r.ok
          /\ tasks[t].st = "ok" => RecordsOf(pending[t].url) = 1
          /\ tasks[t].st \notin {"ok", "failed"} => RecordsOf(pending[t].url) = 0)
  /\ [][\A t \in DOMAIN tasks :
          (tasks[t].st \in {"ok", "failed"} /\ pc' = "loop") => tasks'[t] = tasks[t]]_vars

\* a URL has failed retries + 1 times and its task has returned
C3_Witness ==
  \E t \in DOMAIN tasks : tasks[t].st = "failed" /\ tasks[t].calls = retries + 1

\* crawler.arun returned a text that is missing, empty or only whitespace
Blank(result) ==
  /\ ~result.exc
  /\ \/ result.markdown.none
     \/ \A i \in 1..Len(result.markdown.s) : result.markdown.s[i] = " "

\* C4: an attempt that returns an empty or whitespace-only text is a failed
\* attempt (the task sleeps before a retry, or returns ok=false), and no
\* record with ok=true has an empty content.
C4_EmptyIsFailure ==
  /\ [](\A r \in AllRecords : r.ok => r.markdown_chars > 0)
  /\ [][\A t \in DOMAIN tasks : \A result \in ArunOutcomes :
          (Blank(result) /\ Fetch(t, result)) =>
             /\ tasks'[t].st \in {"sleeping", "failed"}
             /\ pages' = pages
             /\ tasks'[t].st = "sleeping" =>
                  tasks'[t].attempt = tasks[t].attempt + 1 /\ done_q' = done_q
             /\ tasks'[t].st = "failed" =>
                  /\ ~done_q'[Len(done_q')].ok
                  /\ tasks[t].attempt = retries]_vars

\* an attempt has returned an empty text and its task waits to retry
C4_Witness ==
  \E t \in DOMAIN tasks : tasks[t].st = "sleeping" /\ tasks[t].last_err = ErrEmpty

\* C5: a run that runs to completion has appended exactly one record for
\* each pending URL, whatever the outcome of the other URLs.
C5_FailureContained ==
  [][(pc = "closing" /\ pc' = "done") =>
       LET new == Written(SubSeq(ledger'.data, base + 1, Len(ledger'.data))) IN
       /\ Len(new) = Len(pending)
       /\ \A i \in 1..Len(pending) :
            Len(SelectSeq(new, LAMBDA r : r.url = pending[i].url)) = 1]_vars

\* a completed run whose ledger holds a failed URL and a fetched one
C5_Witness ==
  /\ pc = "done"
  /\ \E r \in Range(Written(ledger.data)) : ~r.ok
  /\ \E r \in Range(Written(ledger.data)) : r.ok


RECURSIVE UpToLastNewline(_)
\* the part of a file that consists of newline-terminated lines
UpToLastNewline(data) ==
  IF data = <<>> \/ data[Len(data)].k = "nl" THEN data
  ELSE UpToLastNewline(SubSeq(data, 1, Len(data) - 1))

\* the records replayed from the newline-terminated lines of a file
CompleteRecs(f) == read_jsonl(FileOf(UpToLastNewline(f.data)))

\* C6 as stated: at every point the completed fetch results that are not yet
\* in the ledger (taken by the loop or not) number at most batch_size.
C6_AtMostOneBatchUnflushed == Len(done_q) + Len(results_batch) <= batch_size

\* C6 as amended: results_batch never holds more than batch_size results, the
\* results not yet taken by the loop are at most one per task still to be
\* yielded, and every record replayed from a complete line of the ledger is
\* still replayed after any step, a kill included.
C6_BoundedBuffer ==
  /\ [](Len(results_batch) <= batch_size /\ Len(done_q) <= todo)
  /\ [][IsPrefix(CompleteRecs(ledger), CompleteRecs(ledger'))]_vars

\* the first run is killed after it has flushed a batch
C6_Witness ==
  /\ run = 1
  /\ pc = "killed"
  /\ Len(CompleteRecs(ledger)) >= batch_size

\* C7 as stated: with a torn last line in the ledger, every complete record
\* written before it or appended after it is recovered by the replay.
C7_TornTailTolerated ==
  \A i \in 1..(Len(ledger.data) - 1) :
    (ledger.data[i].k = "json" /\ ledger.data[i + 1].k = "nl")
      => ledger.data[i].v \in Range(Replayed)

\* C8: every step leaves what is in the ledger file in place and adds at its
\* end at most the lines of the batch being flushed; a step of a fetch task
\* never changes the ledger.
C8_AppendOnly ==
  [][/\ IsPrefix(ledger.data, ledger'.data)
     /\ ledger.exists => ledger'.exists
     /\ ledger' # ledger =>
          /\ pc \in {"loop", "closing"}
          /\ \/ pc = "loop" /\ done_q # <<>> /\ pc' # "killed"
                /\ ledger'.data = ledger.data \o Dump(Append(results_batch, Head(done_q)))
             \/ pc = "closing" /\ pc' # "killed"
                /\ ledger'.data = ledger.data \o Dump(results_batch)
             \/ pc' = "killed"
     /\ (pc' = "loop" /\ tasks' # tasks) => ledger' = ledger]_vars

\* a later run has appended records after the ones it found
C8_Witness ==
  /\ run >= 2
  /\ pc = "loop"
  /\ base > 0
  /\ Len(ledger.data) > base

\* the candidate records of the two input files, in reading order
Candidates == read_jsonl(inputs[1]) \o read_jsonl(inputs[2])

\* the URL of a candidate record: its url, else its link, when not empty
CandidateUrl(rec) ==
  IF "url" \in DOMAIN rec /\ rec.url # EmptyUrl THEN rec.url
  ELSE IF "link" \in DOMAIN rec /\ rec.link # EmptyUrl THEN rec.link
  ELSE EmptyUrl

\* the position of the first candidate record of URL u
FirstAt(u) ==
  CHOOSE i \in 1..Len(Candidates) :
    /\ CandidateUrl(Candidates[i]) = u
    /\ \A j \in 1..(i - 1) : CandidateUrl(Candidates[j]) # u

\* the URLs with an ok=true record in the ledger the process found
SucceededAtStart ==
  {r.url : r \in {x \in Range(read_jsonl(LedgerAtStart)) : x.ok}}

\* run_crawl has computed pending and no task has taken a step yet
AtStartup ==
  \/ pc = "returned"
  \/ pc = "loop" /\ \A t \in DOMAIN tasks : tasks[t].st = "waiting"

\* C9: at startup the pending list holds each candidate URL at most once, no
\* URL with an ok=true record in the replayed ledger, every candidate URL
\* without one, and nothing else, in input order.
C9_PendingIsCandidatesMinusSucceeded ==
  AtStartup =>
    /\ \A i, j \in 1..Len(pending) : i < j => pending[i].url # pending[j].url
    /\ \A i \in 1..Len(pending) : pending[i].url \notin SucceededAtStart
    /\ \A i \in 1..Len(pending) :
         \E k \in 1..Len(Candidates) : CandidateUrl(Candidates[k]) = pending[i].url
    /\ \A k \in 1..Len(Candidates) :
         LET u == CandidateUrl(Candidates[k]) IN
         (u # EmptyUrl /\ u \notin SucceededAtStart)
           => \E i \in 1..Len(pending) : pending[i].url = u
    /\ \A i, j \in 1..Len(pending) :
         i < j => FirstAt(pending[i].url) < FirstAt(pending[j].url)

\* a later run starts with one URL already fetched and another one that has
\* only an ok=false record
C9_Witness ==
  /\ run >= 2
  /\ pc = "loop"
  /\ AtStartup
  /\ SucceededAtStart # {}
  /\ \E r \in Range(read_jsonl(LedgerAtStart)) :
       ~r.ok /\ \E i \in 1..Len(pending) : pending[i].url = r.url
  /\ Len(pending) < Len(items)

\* ws holds exactly one item for each canonical URL of the records recs that
\* have a URL, and it is the first such record
KeyedByCanonicalUrl(ws, recs, urlOf(_), sameItem(_, _)) ==
  /\ \A i, j \in 1..Len(ws) : i < j => canon(ws[i].url) # canon(ws[j].url)
  /\ \A k \in 1..Len(recs) :
       urlOf(recs[k]) # EmptyUrl =>
         \E i \in 1..Len(ws) :
           /\ canon(ws[i].url) = canon(urlOf(recs[k]))
           /\ \E f \in 1..k :
                /\ urlOf(recs[f]) # EmptyUrl
                /\ canon(urlOf(recs[f])) = canon(urlOf(recs[k]))
                /\ \A g \in 1..(f - 1) :
                     urlOf(recs[g]) = EmptyUrl \/ canon(urlOf(recs[g])) # canon(urlOf(recs[k]))
                /\ sameItem(ws[i], recs[f])

\* the records unique_by_url keeps: those with a url and a title
Titled(recs) == SelectSeq(recs, LAMBDA r : "url" \in DOMAIN r /\ "title" \in DOMAIN r)

\* C10 as stated: the working set of load_items and the one of unique_by_url
\* hold exactly one item for each distinct canonical URL, the first in input
\* order, and no two items with the same canonical URL.
C10_DedupByCanonicalUrl ==
  /\ pc \in {"loop", "closing", "returned"} =>
       KeyedByCanonicalUrl(items, Candidates, CandidateUrl,
                           LAMBDA it, rec : it.url = CandidateUrl(rec))
  /\ KeyedByCanonicalUrl(unique_by_url(Titled(Candidates)), Titled(Candidates),
                         LAMBDA r : r.url,
                         LAMBDA it, rec : it.title = rec.title)

\* ------------------------------------------------- curate_results.py, run
\* number of rows of contents.jsonl
MaxRows == 3

uw == <<"http", ":", "/", "/", "www.", "b", "/", "y">>

\* the page files: the path "pm" names no file; "p0" holds a meta comment and
\* no text after it
CuratePages ==
  [path \in {"p0", "p1", "p2", "p3"} |->
     CASE path = "p0" -> PageOf(0, 0, 0)
       [] path = "p1" -> PageOf(1, 0, 1)
       [] path = "p2" -> PageOf(2, 0, 10)
       [] path = "p3" -> PageOf(3, 7, 10)]

\* a fetch record of contents.jsonl
RowOf(u, title, ok, path, fetched_at) ==
  [url |-> u, title |-> title, source_file |-> "rss_data.jsonl", ok |-> ok,
   error |-> IF ok THEN None ELSE Some(ErrEmpty), markdown_path |-> path,
   markdown_chars |-> 0, fetched_at |-> fetched_at]

\* the rows of contents.jsonl: fetched pages of three hosts, a failed fetch,
\* a record whose page file is missing, a page without text
CurateRows ==
  {RowOf(uA, "t1", TRUE, Some("p1"), None),
   RowOf(ub, "t3", TRUE, Some("p2"), Some("old")),
   RowOf(uw, "t8", TRUE, Some("p3"), Some("today")),
   RowOf(ua, "t2", FALSE, None, None),
   RowOf(ub, "t3", TRUE, Some("pm"), None),
   RowOf(uA, "t5", TRUE, Some("p0"), None)}

\* the configurations: three sets of weights (the defaults, a small weight on
\* the domain alone, weights that sum to 4), three pairs of domain lists,
\* final_n and the re-score pass absent or set
Profiles ==
  {ProfileOf(w, d[1], d[2], n, llm) :
     w \in {DefaultWeights,
            [keyword |-> 0, domain |-> 10, recency |-> 0, length |-> 0],
            [keyword |-> 100000, domain |-> 100000, recency |-> 100000, length |-> 100000]},
     d \in {<<<<>>, <<>>>>,
            <<<< <<"A">> >>, <<>>>>,
            <<<< <<"www.", "b">> >>, << <<"a">> >>>>},
     n \in {None, Some(1), Some(2)},
     llm \in {LlmOff, LlmOn(None), LlmOn(Some(1)), LlmOn(Some(2))}}

InitCurate ==
  /\ CrawlIdle
  /\ ScoreIdle
  /\ CanonIdle
  /\ LoadIdle
  /\ profile \in Profiles
  /\ contents \in {FileOf(Dump(rows)) :
                     rows \in UNION {[1..n -> CurateRows] : n \in 0..MaxRows}}
  /\ ranked = [st |-> "notrun", scored |-> <<>>]
  /\ curated = AbsentFile

\* main of curate_results.py, from reading contents.jsonl to writing
\* curated.jsonl (opened in write mode)
CurateMain ==
  /\ ranked.st = "notrun"
  /\ LET out == curate_main(profile, read_jsonl(contents), CuratePages) IN
     /\ ranked' = [st |-> out.st, scored |-> out.scored]
     /\ curated' = IF out.st = "done" THEN FileOf(Dump(out.top)) ELSE curated
  /\ UNCHANGED <<crawlVars, timeVars, canonVars, loadVars, scoreVars, profile, contents>>

NextCurate == CurateMain

SpecCurate == InitCurate /\ [][NextCurate]_vars

\* the list scored as the scoring loop of main built it, before any sort
ScoredInOrder == ScoreRows(profile, read_jsonl(contents), CuratePages)

\* a ranked item as the scoring loop built it: without the scores and the
\* marker of the re-score pass
AsScored(x) ==
  [url |-> x.url, title |-> x.title, domain |-> x.domain, score_raw |-> x.score_raw,
   reasons |-> SelectSeq(x.reasons, LAMBDA b : b # "llm:bonus"),
   fetched_at |-> x.fetched_at, markdown_path |-> x.markdown_path, chars |-> x.chars]

\* the ways of matching n ranked items with n scored ones
Matchings(n) == {m \in [1..n -> 1..n] : \A i, j \in 1..n : m[i] = m[j] => i = j}

\* final_n as main uses it
FinalN == OrDefault(profile.limits.final_n, 40)

Min(a, b) == IF a < b THEN a ELSE b

\* the output holds the first min(final_n, number of scored items) items of
\* the ranked list, which is in descending order of the final score
SortedAndCut ==
  /\ Written(curated.data) = SubSeq(ranked.scored, 1, Min(FinalN, Len(ranked.scored)))
  /\ \A i, j \in 1..Len(ranked.scored) :
       i < j => ranked.scored[i].score >= ranked.scored[j].score

\* C15 as stated: the output is the scored list in descending order of the
\* final score, cut to final_n, and items of equal final score are in the
\* order in which they were scored, with the re-score pass on or off.
C15_TiesInScoringOrder ==
  ranked.st = "done" =>
    /\ SortedAndCut
    /\ \E m \in Matchings(Len(ranked.scored)) :
         /\ \A i \in 1..Len(ranked.scored) : AsScored(ranked.scored[i]) = ScoredInOrder[m[i]]
         /\ \A i, j \in 1..Len(ranked.scored) :
              (i < j /\ ranked.scored[i].score = ranked.scored[j].score) => m[i] < m[j]

\* C15 as amended: items of equal final score are in the order they had
\* before the last sort: the scoring order when the re-score pass is off;
\* when it is on, descending provisional score, and the scoring order among
\* items of equal provisional score.
C15_TiesInPreSortOrder ==
  ranked.st = "done" =>
    /\ SortedAndCut
    /\ \E m \in Matchings(Len(ranked.scored)) :
         /\ \A i \in 1..Len(ranked.scored) : AsScored(ranked.scored[i]) = ScoredInOrder[m[i]]
         /\ \A i, j \in 1..Len(ranked.scored) :
              (i < j /\ ranked.scored[i].score = ranked.scored[j].score) =>
                 IF profile.llm.llm_enabled
                 THEN \/ ranked.scored[i].score_raw > ranked.scored[j].score_raw
                      \/ /\ ranked.scored[i].score_raw = ranked.scored[j].score_raw
                         /\ m[i] < m[j]
                 ELSE m[i] < m[j]

\* a run with the re-score pass on whose output is cut and in which two
\* items of different provisional score have the same final score
C15_Witness ==
  /\ ranked.st = "done"
  /\ profile.llm.llm_enabled
  /\ Len(Written(curated.data)) < Len(ranked.scored)
  /\ \E i, j \in 1..Len(ranked.scored) :
       /\ i < j
       /\ ranked.scored[i].score = ranked.scored[j].score
       /\ ranked.scored[i].score_raw > ranked.scored[j].score_raw

\* the ranked items that carry the marker of the re-score pass
Marked == {i \in 1..Len(ranked.scored) : "llm:bonus" \in Range(ranked.scored[i].reasons)}

\* C16: with the re-score pass on and the cutoff K, exactly min(K, number of
\* scored items) items carry the marker, once each, with their bonus in
\* score_llm and added to the score; none of them has a lower provisional
\* score than an item without the marker; every other item has score_llm 0
\* and its provisional score as score.
C16_TopKRescored ==
  (ranked.st = "done" /\ profile.llm.llm_enabled) =>
    /\ Cardinality(Marked) = Min(OrDefault(profile.llm.top_k_for_llm, 60), Len(ranked.scored))
    /\ \A i \in 1..Len(ranked.scored) :
         LET x == ranked.scored[i] IN
         IF i \in Marked
         THEN /\ Len(SelectSeq(x.reasons, LAMBDA b : b = "llm:bonus")) = 1
              /\ x.score_llm = bonus_of(x.chars)
              /\ x.score = x.score_raw + x.score_llm
              /\ \A j \in 1..Len(ranked.scored) :
                   j \notin Marked => x.score_raw >= ranked.scored[j].score_raw
         ELSE /\ x.score_llm = 0
              /\ x.score = x.score_raw

\* a run with the cutoff below the number of scored items: an item with a
\* bonus and an item without
C16_Witness ==
  /\ ranked.st = "done"
  /\ profile.llm.llm_enabled
  /\ profile.llm.top_k_for_llm # None
  /\ \E i \in Marked : ranked.scored[i].score_llm > 0
  /\ \E j \in 1..Len(ranked.scored) : j \notin Marked
  /\ Cardinality(Marked) = 2

\* the four signal scores of a ranked item, from its own page, timestamp
\* and domain
SignalsOf(x) ==
  [ks |-> CuratePages[x.markdown_path.s].ks,
   ds |-> domain_score(x.domain,
                       [i \in 1..Len(profile.prefer_domains) |-> LowerAll(profile.prefer_domains[i])],
                       [i \in 1..Len(profile.avoid_domains) |-> LowerAll(profile.avoid_domains[i])]),
   rs |-> recency_score(x.fetched_at),
   ls |-> CuratePages[x.markdown_path.s].ls]

\* C19: the fused score of every item is the sum of weight times signal
\* score over the four signals, whatever the weights sum to, and two items
\* with the same four signal scores have the same fused score, wherever
\* they stand in the list.
C19_FusedIsWeightedSum ==
  ranked.st = "done" =>
    /\ \A i \in 1..Len(ranked.scored) :
         LET x == ranked.scored[i]
             sg == SignalsOf(x)
         IN x.score_raw = profile.weights.keyword * sg.ks + profile.weights.domain * sg.ds
                          + profile.weights.recency * sg.rs + profile.weights.length * sg.ls
    /\ \A i, j \in 1..Len(ranked.scored) :
         SignalsOf(ranked.scored[i]) = SignalsOf(ranked.scored[j])
           => ranked.scored[i].score_raw = ranked.scored[j].score_raw

\* weights that sum to 4, an item with four non-zero signals among others
C19_Witness ==
  /\ ranked.st = "done"
  /\ profile.weights.keyword + profile.weights.domain
       + profile.weights.recency + profile.weights.length = 400000
  /\ Len(ranked.scored) >= 2
  /\ \E i \in 1..Len(ranked.scored) :
       LET sg == SignalsOf(ranked.scored[i]) IN
       sg.ks > 0 /\ sg.ds > 0 /\ sg.rs > 0 /\ sg.ls > 0

\* the host of a URL string: its netloc up to the port
HostOf(u) ==
  LET p == urlparse(u)
      c == Find(p.netloc, ":")
  IN IF p.raises THEN <<>>
     ELSE IF c > 0 THEN SubSeq(p.netloc, 1, c - 1) ELSE p.netloc

\* a domain as the claim compares it: lower-cased, without a leading "www."
DomainKey(d) ==
  LET l == LowerAll(d) IN IF l # <<>> /\ l[1] = "www." THEN Tail(l) ELSE l

\* the domain score the claim gives a URL
ClaimedDomainScore(u, prefer_domains, avoid_domains) ==
  IF HostOf(u) = <<>> THEN 3
  ELSE IF \E i \in 1..Len(prefer_domains) : DomainKey(prefer_domains[i]) = DomainKey(HostOf(u))
  THEN 10
  ELSE IF \E i \in 1..Len(avoid_domains) : DomainKey(avoid_domains[i]) = DomainKey(HostOf(u))
  THEN 0
  ELSE 6

\* C20 as stated: the domain score of every item that is scored is 0.3
\* without a domain, 1.0 for a host of the preferred list, 0.0 for one of
\* the avoided list and 0.6 otherwise, hosts and list entries compared
\* lower-cased and without a leading "www."; the reasons name the preferred
\* and the avoided domains accordingly.
C20_DomainScore ==
  ranked.st = "done" =>
    \A i \in 1..Len(ranked.scored) :
      LET x == ranked.scored[i]
          claimed == ClaimedDomainScore(x.url, profile.prefer_domains, profile.avoid_domains)
      IN /\ SignalsOf(x).ds = claimed
         /\ "prefer-domain" \in Range(x.reasons) <=> claimed = 10
         /\ "avoid-domain" \in Range(x.reasons) <=> claimed = 0

\* ------------------------------------------ the crawl followed by curation
\* The page files of OUT_MD_DIR as curate_results.py reads them. Every text
\* fetch_one accepts in the model is "x": one character after the meta
\* comment, no keyword, and a length score of 0.2 * (1 / min_chars).
PagesOnDisk == [name \in pages |-> PageOf(1, 0, 1)]

\* the values of limits.final_n the crawl is curated with
FinalNs == {None, Some(1), Some(2)}

\* main of curate_results.py on rows read from the ledger, under the default
\* profile with the given final_n
CurateLedger(final_n, rows) ==
  curate_main(ProfileOf(DefaultWeights, <<>>, <<>>, final_n, LlmOff), rows, PagesOnDisk)

\* the position of a URL in the working set load_items builds from the inputs
PositionOf(url) ==
  LET its == load_items(inputs) IN CHOOSE i \in 1..Len(its) : its[i].url = url

\* the records rows in the order of the working set: the ledger the same run
\* writes when the fetches complete in the order of their items
InItemOrder(rows) ==
  SortDesc([i \in 1..Len(rows) |-> [k |-> 0 - PositionOf(rows[i].url), v |-> rows[i]]])

\* C17 as stated: after one complete run of the crawl, the curated output is
\* the one the same records give when they land in the ledger in the order
\* of their items, whatever the order in which the fetches completed.
C17_OrderIndependent ==
  (run = 1 /\ pc = "done") =>
    \A final_n \in FinalNs :
      CurateLedger(final_n, Replayed).top = CurateLedger(final_n, InItemOrder(Replayed)).top

\* the URLs whose last record in the ledger is a failure
EndedInFailure ==
  {Replayed[i].url : i \in {k \in 1..Len(Replayed) :
     /\ ~Replayed[k].ok
     /\ \A j \in (k + 1)..Len(Replayed) : Replayed[j].url # Replayed[k].url}}

\* C18 as stated: whatever ledger the runs of the crawl have produced, the
\* curated output holds min(final_n, number of scored items) items, none
\* for a URL whose fetch ended in failure, and no two for the same
\* canonical URL.
C18_EndToEnd ==
  \A final_n \in FinalNs :
    LET out == CurateLedger(final_n, Replayed)
        n == OrDefault(final_n, 40)
    IN /\ Len(out.top) = Min(n, Len(out.scored))
       /\ \A i \in 1..Len(out.top) : out.top[i].url \notin EndedInFailure
       /\ \A i, j \in 1..Len(out.top) : canon(out.top[i].url) = canon(out.top[j].url) => i = j

\* ------------------------------------------------- the crawl, scheduled
\* The event loop runs every task that can run: a task waiting for a permit
\* that is free enters, a sleep ends, and every call of crawler.arun returns
\* or raises (it is given a timeout).
\* (variant: a sleep need not end)
Fairness_NoWake ==
  /\ WF_vars((\E t \in DOMAIN tasks : Acquire(t)) /\ UNCHANGED pureVars)
  /\ WF_vars((\E t \in DOMAIN tasks : \E result \in ArunOutcomes : Fetch(t, result))
               /\ UNCHANGED pureVars)
Fairness ==
  /\ WF_vars((\E t \in DOMAIN tasks : Acquire(t)) /\ UNCHANGED pureVars)
  /\ WF_vars((\E t \in DOMAIN tasks : \E result \in ArunOutcomes : Fetch(t, result))
               /\ UNCHANGED pureVars)
  /\ WF_vars((\E t \in DOMAIN tasks : Wake(t)) /\ UNCHANGED pureVars)

SpecLive == Init /\ [][Next]_vars /\ Fairness

\* the indices a task can have
TaskIds == UNION {1..Len(load_items(files)) : files \in InputChoices}

\* the states of a URL: PENDING is "waiting", FETCHING "fetching", RETRYING
\* "sleeping", SUCCESS "ok", FAILED "failed"
Terminal == {"ok", "failed"}

\* the steps of a task the state machine allows
AllowedStep(t) ==
  LET a == tasks[t].st
      b == tasks'[t].st
  IN \/ a = b
     \/ a = "waiting" /\ b = "fetching"
     \/ a = "fetching" /\ b = "ok" /\ faults' = faults
     \/ /\ a = "fetching" /\ b = "sleeping"
        /\ faults' = faults + 1
        /\ tasks[t].attempt < retries
     \/ /\ a = "fetching" /\ b = "failed"
        /\ faults' = faults + 1
        /\ tasks[t].attempt = retries
     \/ a = "sleeping" /\ b = "fetching"

\* C24: within a run a URL moves only PENDING -> FETCHING -> (SUCCESS |
\* RETRYING -> FETCHING | FAILED); it starts PENDING, RETRYING is entered
\* only from a failed FETCHING with attempts left, FAILED only from a failed
\* FETCHING with none left, SUCCESS and FAILED are left by no step of the
\* run, and every pending URL of a run that is not killed reaches SUCCESS
\* or FAILED.
C24_UrlStateMachine ==
  /\ [][/\ pc' = "loop" /\ pc # "loop" => \A t \in DOMAIN tasks' : tasks'[t].st = "waiting"
        /\ pc' = "loop" /\ pc = "loop" =>
             /\ DOMAIN tasks' = DOMAIN tasks
             /\ \A t \in DOMAIN tasks : AllowedStep(t)
             /\ \A t \in DOMAIN tasks : tasks[t].st \in Terminal => tasks'[t].st = tasks[t].st]_vars
  /\ \A t \in TaskIds :
       (pc = "loop" /\ t \in DOMAIN tasks)
         ~> (pc = "killed" \/ (t \in DOMAIN tasks /\ tasks[t].st \in Terminal))

\* a URL has gone FETCHING -> RETRYING -> FETCHING -> SUCCESS while another
\* one is still PENDING
C24_Witness ==
  /\ \E t \in DOMAIN tasks : tasks[t].st = "ok" /\ tasks[t].calls >= 2
  /\ \E t \in DOMAIN tasks : tasks[t].st = "waiting"

\* ------------------------------------------------------ the crawl in time
\* the time the model follows the crawl for, in seconds
MaxClock == 6

\* min(2 ** attempt, 5): the argument of asyncio.sleep
\* (variant: a fixed interval)
backoff_fixed(attempt) == 2
backoff(attempt) == Min(2 ^ attempt, 5)

\* The times of a task: fetched_at is datetime.utcnow() read when out is
\* built, started the moment the last attempt called crawler.arun (-1: no
\* attempt yet), delay the argument of the asyncio.sleep under way, due the
\* moment that sleep ends at the earliest
NewStamps(now) == [fetched_at |-> now, started |-> -1, delay |-> 0, due |-> 0]

InitTimed ==
  /\ Init
  /\ inputs \in {files \in InputChoices : Len(load_items(files)) >= 2}

\* a second passes while some task has not returned; a task that can enter
\* "async with sem" does so at once
Tick ==
  /\ pc = "loop"
  /\ \E t \in DOMAIN tasks : tasks[t].st \notin {"ok", "failed"}
  /\ ~\E t \in DOMAIN tasks : tasks[t].st = "waiting" /\ PermitFree(sem)
  /\ clock < MaxClock
  /\ clock' = clock + 1
  /\ UNCHANGED <<crawlVars, canonVars, loadVars, curateVars, scoreVars, stamps>>

\* run_crawl starts, for the first time: every task runs to "async with
\* sem" and builds out
TimedStartup ==
  /\ run = 0
  /\ Startup
  /\ stamps' = [t \in 1..Len(pending') |-> NewStamps(clock)]
  /\ UNCHANGED <<canonVars, loadVars, curateVars, scoreVars, clock>>

\* the first attempt starts when the permit is obtained
TimedAcquire(t) ==
  /\ Acquire(t)
  /\ stamps' = [stamps EXCEPT ![t].started = clock]
  /\ UNCHANGED <<canonVars, loadVars, curateVars, scoreVars, clock>>

\* an attempt ends: fetch_one returns, or sleeps min(2 ** attempt, 5) seconds
TimedFetch(t, result) ==
  /\ Fetch(t, result)
  /\ stamps' = IF tasks'[t].st = "sleeping"
               THEN [stamps EXCEPT ![t].delay = backoff(tasks'[t].attempt),
                                   ![t].due = clock + backoff(tasks'[t].attempt)]
               ELSE stamps
  /\ UNCHANGED <<canonVars, loadVars, curateVars, scoreVars, clock>>

\* asyncio.sleep returns, not before its delay has passed, and the next
\* attempt starts
TimedWake(t) ==
  /\ Wake(t)
  /\ clock >= stamps[t].due
  /\ stamps' = [stamps EXCEPT ![t].started = clock, ![t].delay = 0, ![t].due = 0]
  /\ UNCHANGED <<canonVars, loadVars, curateVars, scoreVars, clock>>

NextTimed ==
  \/ TimedStartup
  \/ \E t \in DOMAIN tasks : TimedAcquire(t)
  \/ \E t \in DOMAIN tasks : \E result \in ArunOutcomes : TimedFetch(t, result)
  \/ \E t \in DOMAIN tasks : TimedWake(t)
  \/ Tick
  \/ Consume /\ UNCHANGED pureVars
  \/ Finish /\ UNCHANGED pureVars

SpecTimed == InitTimed /\ [][NextTimed]_vars

\* C25: a task that waits to retry sleeps min(2^attempt, 5) seconds, attempt
\* being the number of its failed attempts: 2 s after the first, 4 s after
\* the second, never more than 5 s; the next attempt does not start before
\* the delay has passed; the attempt that fails last is followed by no
\* delay, the failure is returned in the same step.
C25_Backoff ==
  /\ [](\A t \in DOMAIN tasks :
          /\ tasks[t].st = "sleeping" =>
               /\ tasks[t].attempt = tasks[t].calls
               /\ stamps[t].delay = (IF tasks[t].attempt = 1 THEN 2 ELSE 4)
               /\ stamps[t].delay <= 5
               /\ stamps[t].due <= clock + stamps[t].delay
          /\ tasks[t].st # "sleeping" => stamps[t].delay = 0)
  /\ [][\A t \in DOMAIN tasks : t \in DOMAIN tasks' =>
          /\ (tasks[t].st = "fetching" /\ tasks'[t].st = "sleeping") =>
               stamps'[t].due = clock + stamps'[t].delay
          /\ (tasks[t].st = "sleeping" /\ tasks'[t].st = "fetching") =>
               clock >= stamps[t].due
          /\ (tasks[t].st = "fetching" /\ tasks'[t].st = "failed") =>
               /\ clock' = clock
               /\ stamps'[t] = stamps[t]
               /\ Len(done_q') = Len(done_q) + 1
               /\ ~done_q'[Len(done_q')].ok]_vars

\* a third attempt is under way, after the delays of 2 s and of 4 s
C25_Witness ==
  \E t \in DOMAIN tasks :
    tasks[t].st = "fetching" /\ tasks[t].calls = 3 /\ stamps[t].started >= 6

\* C26 as stated: fetched_at of a task that has succeeded is not earlier than
\* the start of the attempt that succeeded, hence not earlier than the
\* moment the task obtained its permit nor than the end of an earlier
\* failed attempt or delay of the task.
C26_FetchedAtOfSuccess ==
  \A t \in DOMAIN tasks :
    tasks[t].st = "ok" => stamps[t].fetched_at >= stamps[t].started

\* the URLs that have an ok=true record in the ledger
SucceededNow == {Replayed[i].url : i \in {k \in 1..Len(Replayed) : Replayed[k].ok}}

\* nothing to crawl: no candidate, or every candidate URL already fetched
NothingToDo ==
  \A i \in 1..Len(load_items(inputs)) : load_items(inputs)[i].url \in SucceededNow

\* C27: when the candidate input is empty or missing, or every candidate URL
\* has an ok=true record in the ledger, a run_crawl that starts makes no
\* fetch, writes no page, leaves the ledger as it is and returns; a process
\* that has returned this way has no task and takes no further step.
C27_NothingToDo ==
  /\ [][(run' = run + 1 /\ NothingToDo) =>
          /\ pc' = "returned"
          /\ tasks' = <<>> /\ pending' = <<>> /\ done_q' = <<>> /\ results_batch' = <<>>
          /\ ledger' = ledger
          /\ pages' = pages
          /\ faults' = faults]_vars
  /\ [][pc = "returned" => (run' = run + 1 \/ UNCHANGED crawlVars)]_vars
  /\ [](pc = "returned" => tasks = <<>> /\ NothingToDo)

\* a later run returns at once: every candidate URL is already fetched
C27_Witness ==
  /\ pc = "returned"
  /\ run >= 2
  /\ items # <<>>
  /\ ledger.exists

\* the tasks that hold a permit: inside "async with sem"
Holding == {t \in DOMAIN tasks : tasks[t].st \in {"fetching", "sleeping"}}

\* C28: a task holds its permit from its first attempt until it returns,
\* backoff delays included: the tasks that are fetching or waiting to retry
\* are at most `concurrency` and hold exactly the permits taken, a permit
\* comes back only when a task returns, and a task waiting for a permit has
\* made no attempt.
C28_PermitHeldAcrossRetries ==
  /\ [](/\ Cardinality(Holding) <= concurrency
        /\ pc = "loop" => sem = concurrency - Cardinality(Holding)
        /\ \A t \in DOMAIN tasks :
             tasks[t].st = "waiting" => tasks[t].calls = 0 /\ tasks[t].attempt = 0)
  /\ [][(pc = "loop" /\ pc' = "loop") =>
          /\ \A t \in DOMAIN tasks :
               (tasks[t].st = "fetching" /\ tasks'[t].st = "sleeping") => sem' = sem
          /\ sem' > sem => \E t \in DOMAIN tasks :
               tasks[t].st = "fetching" /\ tasks'[t].st \in {"ok", "failed"}]_vars

\* every permit is held, one of them by a task in its backoff delay, and a
\* task waits for a permit
C28_Witness ==
  /\ sem = 0
  /\ \E t \in DOMAIN tasks : tasks[t].st = "sleeping"
  /\ \E t \in DOMAIN tasks : tasks[t].st = "waiting"

\* C29: every fetch record, returned, in the batch or written to the ledger,
\* has one of two shapes: ok=true, no error, a content length above 0 and a
\* locator that is the key of its URL, the same for records of the same URL
\* and for no other URL, whose page file exists; or ok=false, the error of
\* the attempt that failed last, no locator and content length 0.
C29_RecordShapes ==
  /\ [](\A r \in AllRecords :
          IF r.ok
          THEN /\ r.error = None
               /\ r.markdown_chars > 0
               /\ r.markdown_path = Some(sha1(r.url))
               /\ r.markdown_path.s \in pages
               /\ \A q \in AllRecords :
                    q.ok => (q.markdown_path = r.markdown_path <=> q.url = r.url)
          ELSE /\ r.error \in {Some(ErrEmpty), Some(ErrArun)}
               /\ r.markdown_path = None
               /\ r.markdown_chars = 0)
  /\ [][\A t \in DOMAIN tasks : \A result \in ArunOutcomes :
          (Fetch(t, result) /\ tasks'[t].st = "failed") =>
             done_q'[Len(done_q')].error = Some(IF result.exc THEN ErrArun ELSE ErrEmpty)]_vars

\* the ledger holds ok=true records of two URLs and an ok=false record
C29_Witness ==
  /\ \E r, q \in Range(Written(ledger.data)) : r.ok /\ q.ok /\ r.url # q.url
  /\ \E r \in Range(Written(ledger.data)) : ~r.ok

\* ------------------------------------------------------------ the scorers
\* The scorers of curate_results.py and of crawl_and_rank.py, one by one.
\* keyword and length scores are fixed-point integers counted in thousandths.
\* A recency score is 2 ^ (-days / half_life), irrational for most ages: the
\* model keeps it exactly, as the root of a fraction.

\* the outcome of a call: the value returned, or the exception raised
Returns(v) == [exc |-> "", val |-> v]
Raises(e) == [exc |-> e, val |-> 0]

Max(a, b) == IF a > b THEN a ELSE b

\* the real number (n / d) ^ (1 / root), and the order of these numbers
Root(n, d, root) == [num |-> n, den |-> d, root |-> root]
RootLess(a, b) ==
  IF a.root = b.root THEN a.num * b.den < b.num * a.den
  ELSE (a.num ^ b.root) * (b.den ^ a.root) < (b.num ^ a.root) * (a.den ^ b.root)
RootEq(a, b) ==
  IF a.root = b.root THEN a.num * b.den = b.num * a.den
  ELSE (a.num ^ b.root) * (b.den ^ a.root) = (b.num ^ a.root) * (a.den ^ b.root)

\* timedelta.days: whole days of a duration given in hours, rounded down
HoursPerDay == 24
DaysOf(hours) == hours \div HoursPerDay

\* values of the field fetched_at (published_at) of an item: missing or
\* empty, a text that is no ISO date, an ISO date with a UTC offset ("Z"
\* included), an ISO date without one; at is the instant, in hours
NoStamp == [kind |-> "none", at |-> 0]
BadStamp == [kind |-> "bad", at |-> 0]
AwareStamp(at) == [kind |-> "aware", at |-> at]
NaiveStamp(at) == [kind |-> "naive", at |-> at]

\* length_score, in thousandths
\* (variant: the lower end of the band excluded)
length_score_late(n_chars, min_chars, max_chars) ==
  IF n_chars = None \/ n_chars.s <= 0 THEN 0
  ELSE IF n_chars.s <= min_chars THEN (200 * n_chars.s) \div Max(1, min_chars)
  ELSE IF n_chars.s <= max_chars THEN 1000
  ELSE Max(400, (1000 * 100000) \div (100000 + (n_chars.s - max_chars)))
length_score(n_chars, min_chars, max_chars) ==
  IF n_chars = None \/ n_chars.s <= 0 THEN 0
  ELSE IF n_chars.s < min_chars THEN (200 * n_chars.s) \div Max(1, min_chars)
  ELSE IF n_chars.s <= max_chars THEN 1000
  ELSE Max(400, (1000 * 100000) \div (100000 + (n_chars.s - max_chars)))

\* recency_score of curate_results.py at the time now (datetime.now(
\* timezone.utc), in hours). The subtraction of a date without offset from now raises TypeError, outside
\* the try that guards the parsing.
\* (variant: no factor beyond the cutoff)
recency_score_nocut(fetched_at_iso, now, half_life_days, hard_days_cutoff) ==
  LET h == Max(1, half_life_days) IN
  IF fetched_at_iso.kind \in {"none", "bad"} THEN Returns(Root(1, 5, 1))
  ELSE IF fetched_at_iso.kind = "naive" THEN Raises("TypeError")
  ELSE The({Returns(Root(1, 2 ^ days, h))
            : days \in {Max(0, DaysOf(now - fetched_at_iso.at))}})
recency_score_at(fetched_at_iso, now, half_life_days, hard_days_cutoff) ==
  LET h == Max(1, half_life_days) IN
  IF fetched_at_iso.kind \in {"none", "bad"} THEN Returns(Root(1, 5, 1))
  ELSE IF fetched_at_iso.kind = "naive" THEN Raises("TypeError")
  ELSE The({IF days > hard_days_cutoff
              THEN Returns(Root(3 ^ h, (2 ^ days) * (10 ^ h), h))
              ELSE Returns(Root(1, 2 ^ days, h))
            : days \in {Max(0, DaysOf(now - fetched_at_iso.at))}})

\* recency_boost of crawl_and_rank.py at the time now (datetime.utcnow(), in
\* hours). The subtraction of a date with an offset from now raises
\* TypeError, outside the try that guards the parsing; the age is not
\* bounded below.
recency_boost(published_at, now, half_life_days) ==
  IF published_at.kind \in {"none", "bad"} THEN Returns(Root(0, 1, 1))
  ELSE IF published_at.kind = "aware" THEN Raises("TypeError")
  ELSE The({IF days >= 0 THEN Returns(Root(1, 2 ^ days, half_life_days))
            ELSE Returns(Root(2 ^ (0 - days), 1, half_life_days))
            : days \in {DaysOf(now - published_at.at)}})

\* entries of a keyword list: a literal, a /regex/ that compiles, one that
\* does not, an empty or null entry, a number
Lit(w) == [kind |-> "str", w |-> w]
Rx(w) == [kind |-> "regex", w |-> w]
BadRx == [kind |-> "badregex", w |-> "("]
EmptyKw == [kind |-> "empty", w |-> ""]
NumberKw == [kind |-> "int", w |-> ""]

\* text_l.count(kw.lower()) and len(re.findall(kw, text, re.IGNORECASE)) on
\* a text of words
Count(text, w) == Cardinality({i \in 1..Len(text) : lower(text[i]) = lower(w)})

RECURSIVE kw_hits(_, _)
\* one of the two loops of keyword_score: the hits of the entries of kws in
\* text; an entry that is no text has no startswith
kw_hits(text, kws) ==
  IF kws = <<>> THEN Returns(0)
  ELSE IF Head(kws).kind = "empty" THEN kw_hits(text, Tail(kws))
  ELSE IF Head(kws).kind = "int" THEN Raises("AttributeError")
  ELSE The({IF rest.exc # "" THEN rest
            ELSE Returns(rest.val + (IF Head(kws).kind = "badregex" THEN 0
                                     ELSE Count(text, Head(kws).w)))
            : rest \in {kw_hits(text, Tail(kws))}})

\* math.log1p in thousandths (rounded), for the counts of the model
log1p(n) ==
  CASE n <= 0 -> 0
    [] n = 1 -> 693
    [] n = 2 -> 1099
    [] n = 3 -> 1386
    [] n = 4 -> 1609
    [] n = 5 -> 1792
    [] OTHER -> 1946

\* keyword_score, in thousandths
keyword_score(text, include, exclude) ==
  IF text = None \/ text.s = <<>> THEN Returns(0)
  ELSE The({IF pos.exc # "" THEN pos
            ELSE The({IF neg.exc # "" THEN neg
                      ELSE Returns(Max(0, log1p(pos.val) - ((3 * log1p(neg.val)) \div 2)))
                      : neg \in {kw_hits(text.s, IF exclude = None THEN <<>> ELSE exclude.s)}})
            : pos \in {kw_hits(text.s, IF include = None THEN <<>> ELSE include.s)}})

\* two entries of KEYWEIGHTS, in thousandths
KEYWEIGHTS == <<[k |-> "mcp", w |-> 1300], [k |-> "fastapi", w |-> 1000]>>

\* the words of a text that may be missing
WordsOf(text) == IF text = None THEN <<>> ELSE text.s

RECURSIVE rule_base(_, _, _)
\* base of score_rules: per key, its weight times (1 when the content has
\* it, plus 2 when the title has it)
rule_base(table, title_l, content_l) ==
  IF table = <<>> THEN 0
  ELSE Head(table).w * ((IF Count(content_l, Head(table).k) > 0 THEN 1 ELSE 0)
                        + (IF Count(title_l, Head(table).k) > 0 THEN 2 ELSE 0))
       + rule_base(Tail(table), title_l, content_l)

\* score_rules: the four terms of its weighted sum (base, exact and
\* length_ok in thousandths), or the exception of recency_boost; n_chars is
\* len(content), and 800 the default of MIN_CONTENT_CHARS
score_rules(title, content, n_chars, published_at, now) ==
  The({IF rec.exc # "" THEN rec
       ELSE Returns([base |-> rule_base(KEYWEIGHTS, WordsOf(title), WordsOf(content)),
                     exact |-> IF Count(WordsOf(title), "guide") > 0 THEN 1000 ELSE 0,
                     rec |-> rec.val,
                     length_ok |-> IF WordsOf(content) # <<>> /\ n_chars >= 800
                                   THEN 1000 ELSE 0])
       : rec \in {recency_boost(published_at, now, 30)}})

\* ----------------------------------------------------- the scorers, applied
\* An item to score: its title, the text of its page, the length of that
\* text (a word of the model stands for a text of any length), the domain
\* of its URL and its timestamp.
ItemOf(title, text, n_chars, domain, fetched_at) ==
  [title |-> title, text |-> text, n_chars |-> n_chars, domain |-> domain,
   fetched_at |-> fetched_at]

\* the four scorer calls of the loop of main of curate_results.py on one
\* item at the time now: the signals, or the first exception
score_item(cfg, it, now) ==
  The({IF ks.exc # "" THEN ks
       ELSE IF rs.exc # "" THEN rs
       ELSE Returns([ks |-> ks.val,
                     ds |-> domain_score(it.domain, <<>>, <<>>),
                     rs |-> rs.val,
                     ls |-> length_score(Some(it.n_chars), cfg.min_chars, cfg.max_chars)])
       : ks \in {keyword_score(Some(WordsOf(it.title) \o <<"\n">> \o it.text),
                               cfg.include_kw, cfg.exclude_kw)},
         rs \in {recency_score_at(it.fetched_at, now, cfg.half_life_days,
                                  cfg.hard_days_cutoff)}})

\* largest limit of the length bands the profiles set
MaxBand == 3
\* largest half-life and largest cutoff, in days, the profiles set
MaxHalfLife == 3
MaxCutoff == 4
\* age in days of the oldest timestamp
MaxAgeDays == 6
\* largest number of items of a list of arbitrary items
MaxItems == 2

\* the time at which the items are scored, in hours
ScoreNow == HoursPerDay * MaxAgeDays

RECURSIVE sorted(_)
\* the numbers of S in increasing order
sorted(S) ==
  IF S = {} THEN <<>>
  ELSE The({<<m>> \o sorted(S \ {m}) : m \in {x \in S : \A y \in S : x <= y}})

\* an ordinary item: a title, a page of one word, fetched now
PlainItem == ItemOf(Some(<<"t">>), <<"a">>, 1, <<"a">>, AwareStamp(ScoreNow))

\* lengths around the two ends of a band, and far above it
LengthSamples(min_chars, max_chars) ==
  sorted({n \in {0, 1, min_chars \div 2, min_chars - 1, min_chars, min_chars + 1,
                 max_chars - 1, max_chars, max_chars + 1, max_chars + 2,
                 max_chars + 50000, max_chars + 150000, max_chars + 150001,
                 max_chars + 250000} : n >= 0})

\* a profile that sets the length band (or leaves a limit out, or sets a
\* negative one), and items of increasing length
LengthRuns ==
  {The({[cfg |-> cfg,
         items |-> [i \in 1..Len(ns) |-> [PlainItem EXCEPT !.n_chars = ns[i]]]]
        : ns \in {LengthSamples(cfg.min_chars, cfg.max_chars)}})
   : cfg \in {ScoreCfgOf("curate", mn, mx, None, None, Some(<<>>), Some(<<>>)) :
                mn \in {None, Some(-1)} \cup {Some(k) : k \in 1..MaxBand},
                mx \in {None} \cup {Some(k) : k \in 1..MaxBand}}}

\* timestamps half a day apart from now back to MaxAgeDays, one of
\* tomorrow, a missing one and one that is no date
StampSamples ==
  <<NoStamp, BadStamp, AwareStamp(ScoreNow + HoursPerDay)>>
  \o [k \in 1..(2 * MaxAgeDays + 1) |-> AwareStamp(ScoreNow - ((k - 1) * (HoursPerDay \div 2)))]

\* a profile that sets the half-life and the cutoff, and items of
\* increasing age
RecencyRuns ==
  {[cfg |-> ScoreCfgOf("curate", None, None, Some(h), Some(c), Some(<<>>), Some(<<>>)),
    items |-> [i \in 1..Len(StampSamples) |-> [PlainItem EXCEPT !.fetched_at = StampSamples[i]]]]
   : h \in 1..MaxHalfLife, c \in 1..MaxCutoff}

\* items with something missing or malformed: no title, no domain, a
\* timestamp that is missing, no date, or a date without an offset; a page
\* of several words; a page without text
OddItems ==
  {PlainItem,
   [PlainItem EXCEPT !.title = None],
   [PlainItem EXCEPT !.domain = <<>>],
   [PlainItem EXCEPT !.fetched_at = NoStamp],
   [PlainItem EXCEPT !.fetched_at = BadStamp],
   [PlainItem EXCEPT !.fetched_at = NaiveStamp(ScoreNow - HoursPerDay)],
   [PlainItem EXCEPT !.text = <<"A", "mcp", "a">>, !.title = Some(<<"guide">>), !.n_chars = 800]}

OddLists == UNION {[1..n -> OddItems] : n \in 0..MaxItems}

\* keyword lists: absent, with a literal, a regex, a regex that does not
\* compile, an empty entry, a number
KwLists ==
  {None, Some(<<>>), Some(<<Lit("a")>>), Some(<<Rx("A"), EmptyKw>>), Some(<<BadRx, Lit("a")>>),
   Some(<<Lit("a"), NumberKw>>)}

\* any of the odd items under any of the keyword lists
OddRuns ==
  {[cfg |-> ScoreCfgOf("curate", None, None, None, None, inc, exc), items |-> its]
   : inc \in KwLists, exc \in {None, Some(<<Lit("a")>>), Some(<<NumberKw>>)}, its \in OddLists}

\* the items of crawl_and_rank.py: published_at is the timestamp of the feed
RankRuns ==
  {[cfg |-> [DefaultScoreCfg EXCEPT !.prog = "rank"], items |-> its]
   : its \in UNION {[1..n -> OddItems \cup {[PlainItem EXCEPT !.text = <<>>],
                                            [PlainItem EXCEPT !.fetched_at =
                                               NaiveStamp(ScoreNow + HoursPerDay)]}]
                      : n \in 0..MaxItems}}

InitScore ==
  /\ CrawlIdle
  /\ CanonIdle
  /\ LoadIdle
  /\ CurateIdle
  /\ \E r \in LengthRuns \cup RecencyRuns \cup OddRuns \cup RankRuns :
       /\ score_cfg = r.cfg
       /\ score_in = r.items
  /\ score_out = <<>>
  /\ score_pc = "scoring"

\* one turn of the loop of main of curate_results.py, for an item that has
\* a page with text: an exception of a scorer is caught nowhere and ends
\* the program
ScoreItem ==
  /\ score_pc = "scoring"
  /\ score_cfg.prog = "curate"
  /\ Len(score_out) < Len(score_in)
  /\ LET out == score_item(score_cfg, score_in[Len(score_out) + 1], ScoreNow) IN
       IF out.exc # ""
       THEN score_pc' = out.exc /\ score_out' = score_out
       ELSE score_pc' = score_pc /\ score_out' = Append(score_out, out.val)
  /\ UNCHANGED <<crawlVars, canonVars, loadVars, curateVars, timeVars, score_cfg, score_in>>

\* one turn of the scoring loop of main of crawl_and_rank.py: an item
\* without content is passed over
RankItem ==
  /\ score_pc = "scoring"
  /\ score_cfg.prog = "rank"
  /\ Len(score_out) < Len(score_in)
  /\ LET it == score_in[Len(score_out) + 1]
         out == score_rules(it.title, Some(it.text), it.n_chars, it.fetched_at, ScoreNow)
     IN IF it.text = <<>>
        THEN score_pc' = score_pc /\ score_out' = Append(score_out, [skipped |-> TRUE])
        ELSE IF out.exc # ""
        THEN score_pc' = out.exc /\ score_out' = score_out
        ELSE score_pc' = score_pc
             /\ score_out' = Append(score_out, [skipped |-> FALSE, s_rule |-> out.val])
  /\ UNCHANGED <<crawlVars, canonVars, loadVars, curateVars, timeVars, score_cfg, score_in>>

\* the end of either loop
ScoreEnd ==
  /\ score_pc = "scoring"
  /\ Len(score_out) = Len(score_in)
  /\ score_pc' = "done"
  /\ UNCHANGED <<crawlVars, canonVars, loadVars, curateVars, timeVars, score_cfg, score_in,
                 score_out>>

NextScore == ScoreItem \/ RankItem \/ ScoreEnd

SpecScore == InitScore /\ [][NextScore]_vars

\* ------------------------------------------------- properties of the scorers
\* the length scores of the items scored so far by curate_results.py keep
\* to the band: 0 at length 0, 1.0 from min_chars to max_chars, not
\* decreasing up to min_chars, positive and not increasing above max_chars
LengthBoundaries ==
  score_cfg.prog = "curate" =>
    \A i \in DOMAIN score_out :
      LET n == score_in[i].n_chars
          ls == score_out[i].ls
      IN /\ n = 0 => ls = 0
         /\ n = score_cfg.min_chars => ls = 1000
         /\ (score_cfg.min_chars <= n /\ n <= score_cfg.max_chars) => ls = 1000
         /\ n > score_cfg.max_chars => ls > 0
         /\ \A j \in DOMAIN score_out :
              LET m == score_in[j].n_chars IN
              /\ (0 <= n /\ n <= m /\ m <= score_cfg.min_chars) => ls <= score_out[j].ls
              /\ (score_cfg.max_chars < n /\ n <= m) => ls >= score_out[j].ls

\* C21 as stated: length_score(0) = 0.0, length_score(min_chars) = 1.0, the
\* score does not decrease on [0, min_chars], is 1.0 on [min_chars,
\* max_chars], and is positive and does not increase above max_chars,
\* whatever the band of the profile
C21_LengthBoundaries == LengthBoundaries

\* C21, amended: the same for a band with 0 < min_chars <= max_chars
C21_LengthBoundariesInBand ==
  (0 < score_cfg.min_chars /\ score_cfg.min_chars <= score_cfg.max_chars) => LengthBoundaries

C21_Witness ==
  /\ score_pc = "done"
  /\ score_cfg.prog = "curate"
  /\ 1 < score_cfg.min_chars /\ score_cfg.min_chars < score_cfg.max_chars
  /\ \E i, j, k, l \in DOMAIN score_out :
       /\ 0 < score_in[i].n_chars /\ score_in[i].n_chars < score_cfg.min_chars
       /\ score_out[i].ls > 0
       /\ score_in[j].n_chars = score_cfg.min_chars
       /\ score_in[k].n_chars = score_cfg.max_chars + 1 /\ score_out[k].ls < 1000
       /\ score_in[l].n_chars > score_in[k].n_chars /\ score_out[l].ls < score_out[k].ls

\* 0.5 ** (days / half_life), and 0.3 times a score
HalfLifeDecay(days, half_life) == Root(1, 2 ^ days, half_life)
Penalised(r) == Root(r.num * (3 ^ r.root), r.den * (10 ^ r.root), r.root)

\* the rows scored so far by curate_results.py whose timestamp is a date
DatedRows ==
  IF score_cfg.prog = "curate"
  THEN {i \in DOMAIN score_out : score_in[i].fetched_at.kind = "aware"}
  ELSE {}

\* the age of the timestamp of row i in hours, and in whole days
AgeHours(i) == ScoreNow - score_in[i].fetched_at.at
AgeDays(i) == Max(0, DaysOf(AgeHours(i)))

\* 0.2 for the rows without a date
UndatedRowsWeak ==
  score_cfg.prog = "curate" =>
    \A i \in DOMAIN score_out :
      score_in[i].fetched_at.kind \in {"none", "bad"} => score_out[i].rs = Root(1, 5, 1)

C23_NoScorerRaises ==
  /\ score_pc \in {"idle", "scoring", "done"}
  /\ score_pc = "done" => Len(score_out) = Len(score_in)
====
